---------------------------- MODULE Spec2Model ----------------------------
(***************************************************************************)
(* A model of the AMBF add-on for Blender (src/ambf_addon.py): the         *)
(* hierarchical traversal, the bounding-box axis classification, and the   *)
(* export / import operators working on a scene, the process-wide          *)
(* CommonConfig and the file system.                                       *)
(***************************************************************************)
EXTENDS Integers, Sequences, FiniteSets, TLC

VARIABLES
    hier,          \* the scene forest handed to populate_heirarchial_tree and the lists it returned
    shape,         \* a bounding-box dimension triple and the axes computed from it
    objects,       \* bpy.data.objects: the objects of the scene, in storage order
    active,        \* context.active_object: an index into objects, or None
    scene,         \* context.scene: the add-on's scene properties
    CommonConfig,  \* the process-wide CommonConfig class
    files,         \* the file system: path -> file
    os_name,       \* os.name: decides what os.rename does when the destination exists
    op,            \* the operator being executed and its position
    exporter,      \* the fields of the running AMBF_OT_generate_ambf_file
    importer,      \* the fields of the running AMBF_OT_load_ambf_file
    hist           \* the operations finished so far in this session

treeVars == <<hier, shape>>
sessionVars == <<objects, active, scene, CommonConfig, files, os_name, op, exporter, importer, hist>>
vars == <<hier, shape, objects, active, scene, CommonConfig, files, os_name, op, exporter, importer, hist>>

(***************************************************************************)
(* Bounds of the model.                                                    *)
(***************************************************************************)
NumObjs == 3      \* objects in the scene of the traversal specification
MaxDim == 4       \* largest bounding-box dimension, in units of 0.001
MaxRuns == 4      \* operations (export, import, clearing the scene) in one session
MaxObjects == 8   \* objects a scene may hold when an import starts creating its own

None == 0         \* Python's None for an object reference

----------------------------------------------------------------------------
(***************************************************************************)
(* Tree Builder: get_grand_parent, downward_tree_pass,                     *)
(* populate_heirarchial_tree.                                              *)
(*                                                                         *)
(* A scene is a record [parent, objects, kids]: the parent link of every   *)
(* object, the order in which bpy.data.objects enumerates the objects, and *)
(* the order in which obj.children enumerates the children of an object    *)
(* (the children of b are the objects whose parent is b, in kids order).   *)
(***************************************************************************)
Obj == 1..NumObjs

RECURSIVE Climb(_, _, _)
Climb(p, o, n) ==
    IF o = None THEN TRUE
    ELSE IF n = 0 THEN FALSE
    ELSE Climb(p, p[o], n - 1)

\* the parent links form a forest: following them from any object ends at None
IsForest(p) == \A o \in Obj : Climb(p, o, NumObjs)

Forests == {p \in [Obj -> Obj \cup {None}] : IsForest(p)}

Perms == {s \in [1..NumObjs -> Obj] : \A i, j \in 1..NumObjs : s[i] = s[j] => i = j}

\* body.children
Children(body, sc) == SelectSeq(sc.kids, LAMBDA c : sc.parent[c] = body)

RECURSIVE get_grand_parent(_, _)
get_grand_parent(body, sc) ==
    IF sc.parent[body] # None THEN get_grand_parent(sc.parent[body], sc) ELSE body

RECURSIVE downward_tree_pass(_, _, _), DownwardChildren(_, _, _, _)

\* mutant: the body is appended after its children
downward_tree_pass_postorder(body, st, sc) ==
    IF body = None \/ st.added[body] THEN st
    ELSE LET marked == [st EXCEPT !.added[body] = TRUE]
             below == DownwardChildren(Children(body, sc), 1, marked, sc)
         IN  [below EXCEPT !.list = Append(below.list, body)]

\* mutant: the added flag is not consulted
downward_tree_pass_noflag(body, st, sc) ==
    IF body = None THEN st
    ELSE DownwardChildren(Children(body, sc), 1,
                          [list |-> Append(st.list, body),
                           added |-> [st.added EXCEPT ![body] = TRUE]], sc)

\* st = [list |-> _heirarichal_bodies_list, added |-> _added_bodies_list]
downward_tree_pass(body, st, sc) ==
    IF body = None \/ st.added[body] THEN st
    ELSE DownwardChildren(Children(body, sc), 1,
                          [list |-> Append(st.list, body),
                           added |-> [st.added EXCEPT ![body] = TRUE]], sc)

\* for child in body.children: downward_tree_pass(child, ...)
DownwardChildren(cs, i, st, sc) ==
    IF i > Len(cs) THEN st
    ELSE DownwardChildren(cs, i + 1, downward_tree_pass(cs[i], st, sc), sc)

RECURSIVE PopulateLoop(_, _, _)
PopulateLoop(i, st, sc) ==
    IF i > Len(sc.objects) THEN st
    ELSE PopulateLoop(i + 1,
                      downward_tree_pass(get_grand_parent(sc.objects[i], sc), st, sc), sc)

\* mutant: only the first object of bpy.data.objects starts a pass
\* for obj in bpy.data.objects: _added_bodies_list[obj] = False
NotAdded(sc) == [o \in {sc.objects[i] : i \in 1..Len(sc.objects)} |-> FALSE]

\* mutant: only the first object of bpy.data.objects starts a pass
populate_heirarchial_tree_first(sc) ==
    downward_tree_pass(get_grand_parent(sc.objects[1], sc),
                       [list |-> <<>>, added |-> NotAdded(sc)], sc).list

populate_heirarchial_tree(sc) ==
    PopulateLoop(1, [list |-> <<>>, added |-> NotAdded(sc)], sc).list

----------------------------------------------------------------------------
(***************************************************************************)
(* Shape Inference: get_major_axis, get_median_axis, get_minor_axis.       *)
(* A Python list of three is a function on 0..2.                           *)
(***************************************************************************)
Axes == 0..2
Dims == 0..MaxDim

Abs(x) == IF x < 0 THEN -x ELSE x

SumDiff(d) == [i \in Axes |->
                 CASE i = 0 -> Abs(d[0] - d[1]) + Abs(d[0] - d[2])
                   [] i = 1 -> Abs(d[1] - d[0]) + Abs(d[1] - d[2])
                   [] i = 2 -> Abs(d[2] - d[0]) + Abs(d[2] - d[1])]

ListMax(l) == CHOOSE v \in {l[i] : i \in Axes} : \A j \in Axes : l[j] <= v
ListMin(l) == CHOOSE v \in {l[i] : i \in Axes} : \A j \in Axes : l[j] >= v
\* list.index(v): the first index holding v
ListIndex(l, v) == CHOOSE i \in Axes : l[i] = v /\ \A j \in Axes : j < i => l[j] # v

\* mutant: no special case for equal bounds
get_major_axis_notie(d) == ListIndex(SumDiff(d), ListMax(SumDiff(d)))

get_major_axis(d) ==
    LET sum_diff == SumDiff(d)
    IN  IF sum_diff[0] = sum_diff[1] /\ sum_diff[1] = sum_diff[2]
        THEN 2
        ELSE ListIndex(sum_diff, ListMax(sum_diff))

get_minor_axis(d) ==
    LET sum_diff == SumDiff(d)
        max_idx == ListIndex(sum_diff, ListMax(sum_diff))
        min_idx == ListIndex(sum_diff, ListMin(sum_diff))
        sort_idx == [i \in Axes |-> IF i = max_idx \/ i = min_idx THEN 0 ELSE 1]
        median_idx == ListIndex(sort_idx, ListMax(sort_idx))
    IN  median_idx

get_median_axis(d) ==
    LET maj_ax_idx == get_major_axis(d)
        min_ax_idx == get_minor_axis(d)
        med_axis_idx == [i \in Axes |-> IF i = maj_ax_idx \/ i = min_ax_idx THEN 0 ELSE 1]
    IN  ListIndex(med_axis_idx, ListMax(med_axis_idx))

----------------------------------------------------------------------------
(***************************************************************************)
(* Strings, names and namespaces.                                          *)
(***************************************************************************)
\* str.rfind(sub): the highest 0-based index at which sub starts, or -1
rfind(s, sub) ==
    LET hits == {i \in 0..(Len(s) - Len(sub)) : SubSeq(s, i + 1, i + Len(sub)) = sub}
    IN  IF hits = {} THEN -1 ELSE CHOOSE i \in hits : \A j \in hits : j <= i

\* CommonConfig.detached_joint_prefix
detached_joint_prefix ==
    <<"redundant", "Redundant", "REDUNDANT", "detached", "Detached", "DETACHED">>

get_body_namespace(fullname) ==
    LET last_occurance == rfind(fullname, "/")
    IN  IF last_occurance >= 0 THEN SubSeq(fullname, 1, last_occurance + 1) ELSE ""

remove_namespace_prefix(full_name) ==
    LET last_occurance == rfind(full_name, "/")
    IN  IF last_occurance > 0
        THEN SubSeq(full_name, last_occurance + 2, Len(full_name))
        ELSE full_name

compare_body_namespace_with_global(fullname) ==
    LET last_occurance == rfind(fullname, "/")
    IN  IF last_occurance >= 0
        THEN CommonConfig.namespace = SubSeq(fullname, 1, last_occurance + 1)
        ELSE FALSE

add_namespace_prefix(name) == CommonConfig.namespace \o name

\* the search loop of generate_body_data and generate_joint_data:
\* obj_handle_name.rfind(_detached_prefix_search_str) == 0 for one of the prefixes
has_detached_name(name) ==
    \E k \in 1..Len(detached_joint_prefix) : rfind(name, detached_joint_prefix[k]) = 0

\* get_extension
get_extension(val) ==
    CASE val = 0 -> ".STL"
      [] val = 1 -> ".OBJ"
      [] val = 2 -> ".3DS"
      [] val = 3 -> ".PLY"
      [] OTHER -> "None"

body_name_prefix == "BODY "
joint_name_prefix == "JOINT "
add_body_prefix_str(urdf_body_str) == body_name_prefix \o urdf_body_str
add_joint_prefix_str(urdf_joint_str) == joint_name_prefix \o urdf_joint_str

----------------------------------------------------------------------------
(***************************************************************************)
(* Poses.  Lengths are integers in units of 0.0001.  Every scene of the    *)
(* model has the identity orientation on every object, so a transform is   *)
(* its translation and a product of transforms adds the translations; the  *)
(* Euler angles are carried as the constant triple of zeros.               *)
(***************************************************************************)
Zero3 == <<0, 0, 0>>
VAdd(a, b) == <<a[1] + b[1], a[2] + b[2], a[3] + b[3]>>
VSub(a, b) == <<a[1] - b[1], a[2] - b[2], a[3] - b[3]>>
VNeg(a) == <<-a[1], -a[2], -a[3]>>

\* round(v, 3): to the nearest multiple of 0.001, a tie to the even one
Round3(n) ==
    LET q == n \div 10
        r == n % 10
    IN  IF r < 5 THEN 10 * q
        ELSE IF r > 5 THEN 10 * (q + 1)
        ELSE IF q % 2 = 0 THEN 10 * q ELSE 10 * (q + 1)

RoundVec3(v) == <<Round3(v[1]), Round3(v[2]), Round3(v[3])>>

UnitAxis(ax_idx) == [k \in 1..3 |-> IF k = ax_idx + 1 THEN 1 ELSE 0]

----------------------------------------------------------------------------
(***************************************************************************)
(* The scene's objects, the files and the ADF document.                    *)
(***************************************************************************)
\* the limits of a constraint, limit_lin_x_upper ... limit_ang_z_lower
NoLimits == [lin_x |-> 0, lin_y |-> 0, lin_z |-> 0, ang_x |-> 0, ang_y |-> 0, ang_z |-> 0]

\* obj.rigid_body_constraint is None
NoConstraint == [type |-> "NONE", object1 |-> None, object2 |-> None,
                 use_limit_lin_x |-> FALSE, use_limit_lin_y |-> FALSE,
                 use_limit_lin_z |-> FALSE, use_limit_ang_x |-> FALSE,
                 use_limit_ang_y |-> FALSE, use_limit_ang_z |-> FALSE,
                 limit_upper |-> NoLimits, limit_lower |-> NoLimits]

\* obj.rigid_body of an object that has none
NoRigidBody == [present |-> FALSE, collision_shape |-> "CONVEX_HULL"]

\* obj.dimensions of a mesh: the bounding box of the mesh files on disk
MeshDimensions == <<2000, 2000, 2000>>

\* a new object, with the defaults of the properties the panels register
NewObject(name, type) ==
    [name |-> name, type |-> type, hide |-> FALSE, parent |-> None,
     location |-> Zero3, rotation_euler |-> Zero3,
     rigid_body |-> NoRigidBody,
     ambf_object_type |-> "NONE", ambf_rigid_body_enable |-> FALSE,
     ambf_constraint_enable |-> FALSE,
     ambf_constraint_limits_enable |-> TRUE,
     ambf_constraint_limits_lower |-> -10472, ambf_constraint_limits_higher |-> 10472,
     dimensions |-> IF type = "MESH" THEN MeshDimensions ELSE Zero3,
     rigid_body_constraint |-> NoConstraint, ambf_constraint |-> NoConstraint,
     ambf_enable_joint_props |-> FALSE,
     ambf_joint_controller_p_gain |-> 500, ambf_joint_controller_d_gain |-> 5]

ObjIds == 1..Len(objects)

\* the CommonConfig class as the module defines it: loaded_body_map maps the
\* handle of an object to the body record it was loaded from
NoCommonConfig == [namespace |-> "", loaded_body_map |-> <<>>]

\* the scene as populate_heirarchial_tree sees it: obj.children follows the
\* storage order of bpy.data.objects
SceneGraph ==
    [parent |-> [o \in ObjIds |-> objects[o].parent],
     objects |-> [o \in ObjIds |-> o],
     kids |-> [o \in ObjIds |-> o]]

\* bpy.data.objects[name]
ObjectNamed(name) == CHOOSE o \in ObjIds : objects[o].name = name
IsObjectName(name) == \E o \in ObjIds : objects[o].name = name

\* the name Blender gives when obj.name = want is assigned: names are unique
UniqueName(want, self) ==
    LET taken(n) == \E o \in ObjIds : o # self /\ objects[o].name = n
    IN  IF ~taken(want) THEN want
        ELSE IF ~taken(want \o ".001") THEN want \o ".001"
        ELSE want \o ".002"

TargetPath == "robot.yaml"

\* the scene properties register() declares, with their defaults; both file paths
\* are set to the session's document
DefaultScene ==
    [ambf_yaml_conf_path |-> TargetPath, external_ambf_yaml_filepath |-> TargetPath,
     ambf_namespace |-> "/ambf/env/", mesh_output_type |-> 0,
     enable_legacy_loading |-> FALSE, adjust_joint_pivots |-> FALSE,
     ignore_ambf_joint_offsets |-> FALSE]
Paths == {TargetPath, TargetPath \o ".old", TargetPath \o ".tmp"}

Absent == [exists |-> FALSE, data |-> <<>>]
EmptyFile == [exists |-> TRUE, data |-> <<>>]

EmptyYaml == [bodies |-> <<>>, joints |-> <<>>, namespace |-> "", items |-> <<>>]

\* the comment header, a dumped document, text that is no ADF document
HeaderChunk == [kind |-> "header", doc |-> EmptyYaml]
YamlChunk(doc) == [kind |-> "yaml", doc |-> doc]
TextChunk == [kind |-> "text", doc |-> EmptyYaml]

\* dict[key] = value
Put(f, key, value) == [k \in (DOMAIN f) \cup {key} |-> IF k = key THEN value ELSE f[k]]

\* mutant: os.rename that moves nothing
os_rename_nothing(fs, src, dst) == fs

\* os.rename(src, dst) where it succeeds
os_rename(fs, src, dst) == [fs EXCEPT ![dst] = fs[src], ![src] = Absent]

\* os.rename raises FileExistsError on Windows when dst exists
RenameRaises(fs, dst) == os_name = "nt" /\ fs[dst].exists

\* open(path, 'w')
open_w(fs, path) == [fs EXCEPT ![path] = EmptyFile]

\* yaml.load of a file's text: comment lines are skipped; the text is a mapping
\* when it holds one dumped document
IsDocument(file) ==
    /\ file.exists
    /\ Cardinality({k \in 1..Len(file.data) : file.data[k].kind # "header"}) = 1
    /\ \A k \in 1..Len(file.data) : file.data[k].kind \in {"header", "yaml"}

yaml_load(file) ==
    file.data[CHOOSE k \in 1..Len(file.data) : file.data[k].kind = "yaml"].doc

----------------------------------------------------------------------------
(***************************************************************************)
(* The operators' own state.                                               *)
(***************************************************************************)
Idle == [name |-> "idle", pc |-> "idle", i |-> 0]

\* AMBF_OT_generate_ambf_file.__init__; before is the file the export found at
\* its target and events the calls made so far, both kept for the properties
NoExporter ==
    [tree |-> <<>>, ambf_yaml |-> EmptyYaml, body_names_list |-> <<>>,
     joint_names_list |-> <<>>, output_file |-> "none", before |-> Absent,
     events |-> <<>>]

\* generate_ambf_yaml never calls output_file.close(): when the export is left,
\* the handle is open until the interpreter finalises the file object, which it
\* may have done or not
LeftToInterpreter == {"open", "closed"}

\* AMBF_OT_load_ambf_file.__init__
NoImporter ==
    [ambf_data |-> EmptyYaml, blender_remapped_body_names |-> <<>>,
     body_T_j_c |-> <<>>, events |-> <<>>]

\* an exception leaves the operator: nothing after the raising statement runs
Raise(what) == /\ hist' = Append(hist, what)
               /\ op' = Idle

Finish(what) == /\ hist' = Append(hist, what)
                /\ op' = Idle

----------------------------------------------------------------------------
(***************************************************************************)
(* Exporter: AMBF_OT_generate_ambf_file.                                   *)
(***************************************************************************)
\* the linear and the angular limit flags of a constraint, by axis
LimitOnAxis(constraint, ax) ==
    CASE ax = 0 -> constraint.use_limit_lin_x \/ constraint.use_limit_ang_x
      [] ax = 1 -> constraint.use_limit_lin_y \/ constraint.use_limit_ang_y
      [] ax = 2 -> constraint.use_limit_lin_z \/ constraint.use_limit_ang_z

\* get_joint_axis: ax_idx, or -1 where the function reaches its return with
\* ax_idx unassigned (a GENERIC_SPRING constraint with no limit flag)
get_joint_axis(constraint) ==
    CASE constraint.type = "HINGE" -> 2
      [] constraint.type = "SLIDER" -> 0
      [] constraint.type = "GENERIC" ->
             IF LimitOnAxis(constraint, 0) THEN 0
             ELSE IF LimitOnAxis(constraint, 1) THEN 1
             ELSE 2
      [] constraint.type = "GENERIC_SPRING" ->
             IF LimitOnAxis(constraint, 0) THEN 0
             ELSE IF LimitOnAxis(constraint, 1) THEN 1
             ELSE IF LimitOnAxis(constraint, 2) THEN 2
             ELSE -1
      [] constraint.type = "POINT" -> 2
      [] constraint.type = "FIXED" -> 2

\* mutant: the parent's frame in the child's frame
compute_pivot_and_axis_inverse(parent, child, constraint) ==
    [pivot |-> VSub(objects[parent].location, objects[child].location),
     axis |-> UnitAxis(get_joint_axis(constraint))]

\* compute_pivot_and_axis: the child's frame in the parent's frame
compute_pivot_and_axis(parent, child, constraint) ==
    [pivot |-> VSub(objects[child].location, objects[parent].location),
     axis |-> UnitAxis(get_joint_axis(constraint))]

\* assign_joint_params: the limit flag the elif chain of a GENERIC or
\* GENERIC_SPRING constraint stops at, "" when it stops at none
limit_flag(constraint) ==
    IF constraint.use_limit_lin_x THEN "lin_x"
    ELSE IF constraint.use_limit_lin_y THEN "lin_y"
    ELSE IF constraint.use_limit_lin_z THEN "lin_z"
    ELSE IF constraint.use_limit_ang_x THEN "ang_x"
    ELSE IF constraint.use_limit_ang_y THEN "ang_y"
    ELSE IF constraint.use_limit_ang_z THEN "ang_z"
    ELSE ""

IsLinear(flag) == flag \in {"lin_x", "lin_y", "lin_z"}

\* assign_joint_params: the ADF type, "" where joint_data['type'] is never set
joint_type(constraint) ==
    CASE constraint.type = "HINGE" ->
             IF constraint.use_limit_ang_z THEN "revolute" ELSE "continuous"
      [] constraint.type = "SLIDER" -> "prismatic"
      [] constraint.type = "GENERIC" ->
             IF limit_flag(constraint) = "" THEN ""
             ELSE IF IsLinear(limit_flag(constraint)) THEN "prismatic" ELSE "revolute"
      [] constraint.type = "GENERIC_SPRING" ->
             IF limit_flag(constraint) = "" THEN ""
             ELSE IF IsLinear(limit_flag(constraint)) THEN "linear spring"
             ELSE "torsion spring"
      [] constraint.type = "POINT" -> "p2p"
      [] constraint.type = "FIXED" -> "fixed"

\* JointTemplate: 'joint limits' and 'controller' as a new record holds them
TemplateLimits == [has |-> "bounds", low |-> -12000, high |-> 12000]
TemplateController == [has |-> TRUE, P |-> 1000, I |-> 0, D |-> 1]

\* the 'joint limits' entry when assign_joint_params leaves the template's
joint_limits_template(constraint) == TemplateLimits

\* assign_joint_params: the 'joint limits' entry
joint_limits(constraint) ==
    LET flag == CASE constraint.type = "HINGE" -> "ang_z"
                  [] constraint.type = "SLIDER" -> "lin_x"
                  [] OTHER -> limit_flag(constraint)
    IN  IF joint_type(constraint) \in {"fixed", "p2p"}
        THEN [has |-> "none", low |-> 0, high |-> 0]
        ELSE IF joint_type(constraint) = "continuous"
        THEN [has |-> "empty", low |-> 0, high |-> 0]
        ELSE [has |-> "bounds", low |-> Round3(constraint.limit_lower[flag]),
              high |-> Round3(constraint.limit_upper[flag])]

\* generate_joint_data: the 'controller' entry after the controller gains block
joint_controller(obj_handle) ==
    IF obj_handle.rigid_body_constraint.type \in {"HINGE", "SLIDER", "GENERIC"}
    THEN IF obj_handle.ambf_enable_joint_props
         THEN [has |-> TRUE, P |-> obj_handle.ambf_joint_controller_p_gain, I |-> 0,
               D |-> obj_handle.ambf_joint_controller_d_gain]
         ELSE [has |-> FALSE, P |-> 0, I |-> 0, D |-> 0]
    ELSE TemplateController

\* generate_body_data, body_data['collision shape']: "" where the key is not
\* set (no rigid body, or a convex hull or a mesh as the shape)
collision_shape(obj_handle) ==
    IF obj_handle.type = "MESH" /\ obj_handle.rigid_body.present
       /\ obj_handle.rigid_body.collision_shape \notin {"CONVEX_HULL", "MESH"}
    THEN obj_handle.rigid_body.collision_shape
    ELSE ""

\* the geometry computed from the rounded dimensions of the object, for a box
geometry_from_dimensions(obj_handle) == RoundVec3(obj_handle.dimensions)

\* the geometry when no record of an earlier import is consulted
collision_geometry_unshared(o, loaded_body_map) ==
    IF collision_shape(objects[o]) = "" THEN Zero3
    ELSE geometry_from_dimensions(objects[o])

\* generate_body_data, body_data['collision geometry'] of object o: taken from
\* the record the object was loaded from when that record has a collision shape
\* and it is the shape of the object's rigid body
collision_geometry(o, loaded_body_map) ==
    LET obj_handle == objects[o]
        ocs == collision_shape(obj_handle)
        _body_col_geo_already_defined ==
            /\ o \in DOMAIN loaded_body_map
            /\ loaded_body_map[o].collision_shape # ""
    IN  IF ocs = "" THEN Zero3
        ELSE IF _body_col_geo_already_defined /\ ocs = loaded_body_map[o].collision_shape
        THEN loaded_body_map[o].collision_geometry
        ELSE geometry_from_dimensions(obj_handle)

\* generate_body_data: the record built for object o, given the records that
\* earlier imports left in CommonConfig.loaded_body_map
body_data_of(o, loaded_body_map) ==
    LET obj_handle == objects[o]
        obj_handle_name == remove_namespace_prefix(obj_handle.name)
    IN  [kind |-> "body",
         name |-> obj_handle_name,
         namespace |-> IF ~compare_body_namespace_with_global(obj_handle.name)
                       THEN get_body_namespace(obj_handle.name) ELSE "",
         mesh |-> IF obj_handle.type = "MESH"
                  THEN obj_handle_name \o get_extension(scene.mesh_output_type)
                  ELSE "",
         location |-> [position |-> RoundVec3(obj_handle.location),
                       orientation |-> RoundVec3(obj_handle.rotation_euler)],
         collision_shape |-> collision_shape(obj_handle),
         collision_geometry |-> collision_geometry(o, loaded_body_map)]

\* generate_body_data: the exporter after the call for object o
generate_body_data(ex, o) ==
    LET obj_handle == objects[o]
        obj_handle_name == remove_namespace_prefix(obj_handle.name)
        body_yaml_name == add_body_prefix_str(obj_handle_name)
        body_data == body_data_of(o, CommonConfig.loaded_body_map)
    IN  IF obj_handle.hide THEN ex
        ELSE IF obj_handle.type = "EMPTY" /\ has_detached_name(obj_handle_name) THEN ex
        ELSE [ex EXCEPT !.ambf_yaml.items = Put(@, body_yaml_name, body_data),
                        !.body_names_list = Append(@, body_yaml_name)]

\* generate_joint_data raises: child_obj_handle.name with object2 unset, ax_idx
\* unassigned in get_joint_axis, or joint_data['type'] read but never set
generate_joint_data_raises(o) ==
    LET obj_handle == objects[o]
        constraint == obj_handle.rigid_body_constraint
    IN  /\ ~obj_handle.hide
        /\ constraint.type # "NONE"
        /\ constraint.object1 # None
        /\ ~objects[constraint.object1].hide
        /\ \/ constraint.object2 = None
           \/ /\ ~objects[constraint.object2].hide
              /\ \/ get_joint_axis(constraint) = -1
                 \/ joint_type(constraint) = ""

\* generate_joint_data: the exporter after the call for object o
generate_joint_data(ex, o) ==
    LET obj_handle == objects[o]
        constraint == obj_handle.rigid_body_constraint
        parent_obj_handle == constraint.object1
        child_obj_handle == constraint.object2
        parent_obj_handle_name == remove_namespace_prefix(objects[parent_obj_handle].name)
        child_obj_handle_name == remove_namespace_prefix(objects[child_obj_handle].name)
        obj_handle_name == remove_namespace_prefix(obj_handle.name)
        is_detached_joint == obj_handle.type = "EMPTY" /\ has_detached_name(obj_handle_name)
        parent_pa == IF is_detached_joint
                     THEN compute_pivot_and_axis(parent_obj_handle, o, constraint)
                     ELSE compute_pivot_and_axis(parent_obj_handle, child_obj_handle, constraint)
        child_pa == IF is_detached_joint
                    THEN compute_pivot_and_axis(child_obj_handle, o, constraint)
                    ELSE [pivot |-> Zero3, axis |-> UnitAxis(get_joint_axis(constraint))]
        joint_data ==
            [kind |-> "joint",
             name |-> parent_obj_handle_name \o "-" \o child_obj_handle_name,
             parent |-> add_body_prefix_str(parent_obj_handle_name),
             child |-> add_body_prefix_str(child_obj_handle_name),
             parent_pivot |-> RoundVec3(parent_pa.pivot),
             parent_axis |-> parent_pa.axis,
             child_pivot |-> RoundVec3(child_pa.pivot),
             child_axis |-> child_pa.axis,
             type |-> joint_type(constraint),
             joint_limits |-> joint_limits(constraint),
             offset |-> 0,
             controller |-> joint_controller(obj_handle),
             detached |-> is_detached_joint]
        joint_yaml_name == add_joint_prefix_str(joint_data.name)
    IN  IF obj_handle.hide THEN ex
        ELSE IF constraint.type = "NONE" THEN ex
        ELSE IF constraint.object1 # None /\ objects[constraint.object1].hide THEN ex
        ELSE IF constraint.object2 # None /\ objects[constraint.object2].hide THEN ex
        ELSE IF constraint.object1 = None THEN ex
        ELSE [ex EXCEPT !.ambf_yaml.items = Put(@, joint_yaml_name, joint_data),
                        !.joint_names_list = Append(@, joint_yaml_name)]

\* generate_ambf_yaml, the two loops over _heirarichal_bodies_list: the calls in order
ExportCalls(tree) ==
    [k \in 1..(2 * Len(tree)) |->
        IF k <= Len(tree) THEN [call |-> "generate_body_data", body |-> tree[k]]
        ELSE [call |-> "generate_joint_data", body |-> tree[k - Len(tree)]]]

\* generate_ambf_yaml up to the initialisation of the document: the backup of an
\* existing file and open(output_filename, 'w')
ExportOpen ==
    /\ op.name = "idle"
    /\ Len(hist) < MaxRuns
    /\ LET output_filename == scene.ambf_yaml_conf_path
           backup == files[output_filename].exists
       IN  IF backup /\ RenameRaises(files, output_filename \o ".old")
           THEN /\ Raise("export raised")
                /\ UNCHANGED <<files, exporter>>
           ELSE /\ files' = open_w(IF backup
                                   THEN os_rename(files, output_filename,
                                                  output_filename \o ".old")
                                   ELSE files,
                                   output_filename)
                /\ exporter' = [NoExporter EXCEPT !.before = files[output_filename],
                                                  !.output_file = "open"]
                /\ op' = [name |-> "export", pc |-> "namespace", i |-> 0]
                /\ UNCHANGED hist
    /\ UNCHANGED <<objects, active, scene, CommonConfig, os_name, importer, hier, shape>>

\* update_global_namespace, the namespace entry and populate_heirarchial_tree
ExportNamespace ==
    /\ op.name = "export" /\ op.pc = "namespace"
    /\ LET ns == scene.ambf_namespace
       IN  IF ns = ""
           THEN \* CommonConfig.namespace[-1] on the empty string
                /\ CommonConfig' = [CommonConfig EXCEPT !.namespace = ns]
                /\ Raise("export raised")
                /\ \E left \in LeftToInterpreter :
                      exporter' = [exporter EXCEPT !.output_file = left]
                /\ UNCHANGED scene
           ELSE /\ IF SubSeq(ns, Len(ns), Len(ns)) # "/"
                   THEN /\ CommonConfig' = [CommonConfig EXCEPT !.namespace = ns \o "/"]
                        /\ scene' = [scene EXCEPT !.ambf_namespace = ns \o (ns \o "/")]
                   ELSE /\ CommonConfig' = [CommonConfig EXCEPT !.namespace = ns]
                        /\ UNCHANGED scene
                /\ exporter' = [exporter EXCEPT
                                  !.ambf_yaml.namespace = CommonConfig'.namespace,
                                  !.tree = populate_heirarchial_tree(SceneGraph)]
                /\ op' = [op EXCEPT !.pc = "calls", !.i = 1]
                /\ UNCHANGED hist
    /\ UNCHANGED <<objects, active, files, os_name, importer, hier, shape>>

ExportBody ==
    /\ op.name = "export" /\ op.pc = "calls"
    /\ op.i <= Len(ExportCalls(exporter.tree))
    /\ ExportCalls(exporter.tree)[op.i].call = "generate_body_data"
    /\ exporter' = [generate_body_data(exporter, ExportCalls(exporter.tree)[op.i].body)
                      EXCEPT !.events = Append(@, "generate_body_data")]
    /\ op' = [op EXCEPT !.i = @ + 1]
    /\ UNCHANGED <<objects, active, scene, CommonConfig, files, os_name, importer, hist,
                   hier, shape>>

ExportJoint ==
    /\ op.name = "export" /\ op.pc = "calls"
    /\ op.i <= Len(ExportCalls(exporter.tree))
    /\ ExportCalls(exporter.tree)[op.i].call = "generate_joint_data"
    /\ LET o == ExportCalls(exporter.tree)[op.i].body
       IN  IF generate_joint_data_raises(o)
           THEN /\ Raise("export raised")
                /\ \E left \in LeftToInterpreter :
                      exporter' = [exporter EXCEPT
                                     !.events = Append(@, "generate_joint_data"),
                                     !.output_file = left]
           ELSE /\ exporter' = [generate_joint_data(exporter, o)
                                  EXCEPT !.events = Append(@, "generate_joint_data")]
                /\ op' = [op EXCEPT !.i = @ + 1]
                /\ UNCHANGED hist
    /\ UNCHANGED <<objects, active, scene, CommonConfig, files, os_name, importer,
                   hier, shape>>

\* the bodies and joints tags and yaml.dump into the open output file
ExportDump ==
    /\ op.name = "export" /\ op.pc = "calls"
    /\ op.i > Len(ExportCalls(exporter.tree))
    /\ exporter' = [exporter EXCEPT !.ambf_yaml.bodies = exporter.body_names_list,
                                    !.ambf_yaml.joints = exporter.joint_names_list]
    /\ files' = [files EXCEPT ![scene.ambf_yaml_conf_path].data =
                                  Append(@, YamlChunk(exporter'.ambf_yaml))]
    /\ op' = [op EXCEPT !.pc = "header"]
    /\ UNCHANGED <<objects, active, scene, CommonConfig, os_name, importer, hist,
                   hier, shape>>

\* prepend_comment_to_file: the header and the file's text go to filename + '.tmp',
\* which is renamed to filename
ExportHeader ==
    /\ op.name = "export" /\ op.pc = "header"
    /\ LET filename == scene.ambf_yaml_conf_path
           temp_filename == filename \o ".tmp"
           written == [files EXCEPT ![temp_filename] =
                          [exists |-> TRUE, data |-> <<HeaderChunk>> \o files[filename].data]]
       IN  IF RenameRaises(written, filename)
           THEN /\ files' = written
                /\ Raise("export raised")
           ELSE /\ files' = os_rename(written, temp_filename, filename)
                /\ Finish("export")
    /\ \E left \in LeftToInterpreter :
          exporter' = [exporter EXCEPT !.output_file = left]
    /\ UNCHANGED <<objects, active, scene, CommonConfig, os_name, importer, hier, shape>>

----------------------------------------------------------------------------
(***************************************************************************)
(* Importer: AMBF_OT_load_ambf_file.                                       *)
(***************************************************************************)
WorldNames == {"world", "World", "WORLD"}

\* Path(...).suffix of the mesh file's path
Suffix(mesh) ==
    IF rfind(mesh, ".") > 0 THEN SubSeq(mesh, rfind(mesh, ".") + 1, Len(mesh)) ELSE ""

\* load_mesh finds a world object in the scene for a world body, and returns None
load_mesh_finds_world(body_data) ==
    /\ body_data.name \in WorldNames
    /\ \E o \in ObjIds : objects[o].type \in {"MESH", "EMPTY"} /\ objects[o].name \in WorldNames

\* load_mesh: the type of the object the mesh importer or empty_add creates,
\* "" when no branch matches the suffix and nothing is created
load_mesh_creates(body_data) ==
    LET suffix == Suffix(body_data.mesh)
    IN  IF suffix \in {".stl", ".STL", ".obj", ".OBJ", ".dae", ".DAE", ".3ds", ".3DS"}
        THEN "MESH"
        ELSE IF suffix = "" THEN "EMPTY" ELSE ""

is_detached_joint(joint_data) == joint_data.detached

has_detached_prefix(joint_name) ==
    \E k \in 1..Len(detached_joint_prefix) : rfind(joint_name, detached_joint_prefix[k]) = 0

get_blender_joint_type(joint_data) ==
    CASE joint_data.type \in {"hinge", "revolute", "continuous"} -> "HINGE"
      [] joint_data.type \in {"prismatic", "slider"} -> "SLIDER"
      [] joint_data.type \in {"spring", "linear spring", "angular spring",
                              "torsional spring", "torsion spring"} -> "GENERIC_SPRING"
      [] joint_data.type \in {"p2p", "point2point"} -> "POINT"
      [] joint_data.type \in {"fixed", "FIXED"} -> "FIXED"
      [] OTHER -> "HINGE"

get_ambf_joint_type(joint_data) ==
    CASE joint_data.type \in {"hinge", "revolute", "continuous"} -> "REVOLUTE"
      [] joint_data.type \in {"prismatic", "slider"} -> "PRISMATIC"
      [] joint_data.type \in {"spring", "linear spring"} -> "LINEAR_SPRING"
      [] joint_data.type \in {"angular spring", "torsional spring", "torsion spring"}
            -> "TORSION_SPRING"
      [] joint_data.type \in {"p2p", "point2point"} -> "P2P"
      [] OTHER -> "FIXED"

\* get_standard_pivot_and_axis_data: the axis the host's constraint works along
standard_axis(joint_data) ==
    IF joint_data.type \in {"prismatic", "slider", "spring", "linear spring"}
    THEN UnitAxis(0) ELSE UnitAxis(2)

\* get_joint_in_parent_transform: T_p_w * T_p_w_off * P_j_p (* identity rotations)
get_joint_in_parent_transform(im, parent_obj_handle, joint_data) ==
    VAdd(VAdd(objects[parent_obj_handle].location, im.body_T_j_c[joint_data.parent]),
         joint_data.parent_pivot)

\* get_child_in_parent_transform: T_p_w * T_p_w_off * P_j_p * P_c_j (* identity rotations)
get_child_in_parent_transform(im, parent_obj_handle, joint_data) ==
    VSub(VAdd(VAdd(objects[parent_obj_handle].location, im.body_T_j_c[joint_data.parent]),
              joint_data.parent_pivot),
         joint_data.child_pivot)

\* obj is anc or below it in the hierarchy, looking at most steps parents up
RECURSIVE IsBelow(_, _, _, _)
IsBelow(objs, obj, anc, steps) ==
    \/ obj = anc
    \/ /\ steps > 0
       /\ objs[obj].parent # None
       /\ IsBelow(objs, objs[obj].parent, anc, steps - 1)

\* mutant: parent_set accepts any parent
parent_set_accepts_loops(objs, obj1, obj2) == FALSE

\* make_obj1_parent_of_obj2 raises: parent_set refuses a parent that is below
\* the object it is to be the parent of ("Loop in parents"), and the error it
\* reports becomes an exception of the operator call
parent_set_raises(objs, obj1, obj2) ==
    /\ objs[obj2].parent = None
    /\ obj1 # obj2
    /\ IsBelow(objs, obj1, obj2, Len(objs))

\* mutant: the parent is set whether or not obj2 has one
make_obj1_parent_of_obj2_always(objs, obj1, obj2) ==
    IF obj1 # obj2 THEN [objs EXCEPT ![obj2].parent = obj1] ELSE objs

\* make_obj1_parent_of_obj2 on a list of objects; parent_set leaves the active
\* object itself alone
make_obj1_parent_of_obj2(objs, obj1, obj2) ==
    IF objs[obj2].parent = None /\ obj1 # obj2
    THEN [objs EXCEPT ![obj2].parent = obj1] ELSE objs

\* bpy.ops.rigidbody.constraint_add(type=joint_type) in create_blender_constraint:
\* an object that has a constraint keeps it
constraint_add(obj, type) ==
    IF obj.rigid_body_constraint.type # "NONE"
    THEN obj.rigid_body_constraint.type ELSE type

\* get_joint_offset_angle
get_joint_offset_angle(joint_data) ==
    IF ~scene.ignore_ambf_joint_offsets THEN joint_data.offset ELSE 0

\* mutant: the offset of the document is added whatever the settings
blender_offset_angle_always(joint_data) == joint_data.offset

\* set_blender_constraint_params: the offset added to the limits, zero when
\* the alignment pass has run
blender_offset_angle(joint_data) ==
    IF scene.adjust_joint_pivots THEN 0 ELSE get_joint_offset_angle(joint_data)

\* set_blender_constraint_params: the limits of the host's constraint
set_blender_constraint_params(constraint, joint_data) ==
    LET offset_angle == blender_offset_angle(joint_data)
        low == joint_data.joint_limits.low
        high == joint_data.joint_limits.high
    IN  IF joint_data.joint_limits.has = "none" THEN constraint
        ELSE IF joint_data.type = "revolute"
        THEN [constraint EXCEPT !.limit_upper.ang_z = high + offset_angle,
                                !.limit_lower.ang_z = low + offset_angle,
                                !.use_limit_ang_z = TRUE]
        ELSE IF joint_data.type = "prismatic"
        THEN [constraint EXCEPT !.limit_upper.lin_x = high,
                                !.limit_lower.lin_x = low,
                                !.use_limit_lin_x = TRUE]
        ELSE IF joint_data.type \in {"spring", "linear spring"}
        THEN [constraint EXCEPT !.limit_upper.lin_x = high + offset_angle,
                                !.limit_lower.lin_x = low + offset_angle,
                                !.use_limit_lin_x = TRUE]
        ELSE IF joint_data.type \in {"angular spring", "torsional spring", "torsion spring"}
        THEN [constraint EXCEPT !.limit_upper.ang_z = high + offset_angle,
                                !.limit_lower.ang_z = low + offset_angle,
                                !.use_limit_ang_z = TRUE]
        ELSE constraint

\* a value stored in a float property declared with min = -3.14, max = 3.14
LimitProperty(v) == IF v < -31400 THEN -31400 ELSE IF v > 31400 THEN 31400 ELSE v

\* set_ambf_constraint_params: the limit properties of the joint handle
set_ambf_constraint_params(joint_obj_handle, joint_data) ==
    IF joint_data.joint_limits.has = "bounds"
    THEN [joint_obj_handle EXCEPT
            !.ambf_constraint_limits_lower = LimitProperty(joint_data.joint_limits.low),
            !.ambf_constraint_limits_higher = LimitProperty(joint_data.joint_limits.high)]
    ELSE [joint_obj_handle EXCEPT !.ambf_constraint_limits_enable = FALSE]

\* set_blender_constraint_params: the controller gains go to the active object
loads_controller(joint_data) ==
    /\ joint_data.joint_limits.has # "none"
    /\ joint_data.controller.has
    /\ joint_data.type \in {"hinge", "continuous", "revolute", "slider", "prismatic"}

\* adjust_body_pivots_and_axis: the importer after the pass from joint k on.
\* raised is set when the child's name is no key of _blender_remapped_body_names
RECURSIVE adjust_body_pivots_and_axis(_, _)
adjust_body_pivots_and_axis(im, k) ==
    IF k > Len(im.ambf_data.joints) THEN [raised |-> FALSE, im |-> im]
    ELSE LET joint_name == im.ambf_data.joints[k]
             joint_data == im.ambf_data.items[joint_name]
             T_c_j == VNeg(joint_data.child_pivot)
         IN  IF is_detached_joint(joint_data)
             THEN [raised |-> FALSE, im |-> im]
             ELSE IF \/ joint_data.child \notin DOMAIN im.blender_remapped_body_names
                     \/ ~IsObjectName(im.blender_remapped_body_names[joint_data.child])
             THEN [raised |-> TRUE, im |-> im]
             ELSE adjust_body_pivots_and_axis(
                     [im EXCEPT !.ambf_data.items[joint_name].child_pivot = Zero3,
                                !.ambf_data.items[joint_name].child_axis =
                                     standard_axis(joint_data),
                                !.body_T_j_c = Put(@, joint_data.child, T_c_j)],
                     k + 1)

\* execute: context.scene.enable_legacy_loading and context.scene.adjust_joint_pivots
RunsAdjustPass(sc) == sc.enable_legacy_loading /\ sc.adjust_joint_pivots

\* mutant: the alignment pass runs before the bodies are loaded
ImportCalls_pass_first(doc, sc) ==
    (IF RunsAdjustPass(sc) THEN <<[call |-> "adjust_body_pivots_and_axis", name |-> ""]>>
     ELSE <<>>)
    \o [k \in 1..Len(doc.bodies) |-> [call |-> "load_body", name |-> doc.bodies[k]]]
    \o [k \in 1..Len(doc.joints) |-> [call |-> "load_joint", name |-> doc.joints[k]]]

\* execute: the calls made after the document is read, in order
ImportCalls(doc, sc) ==
    [k \in 1..Len(doc.bodies) |-> [call |-> "load_body", name |-> doc.bodies[k]]]
    \o (IF RunsAdjustPass(sc)
        THEN <<[call |-> "adjust_body_pivots_and_axis", name |-> ""]>>
        ELSE <<>>)
    \o [k \in 1..Len(doc.joints) |-> [call |-> "load_joint", name |-> doc.joints[k]]]

CurrentCall == ImportCalls(importer.ambf_data, scene)[op.i]

\* execute up to the loading loop: open, yaml.load, set_global_namespace
ImportOpen ==
    /\ op.name = "idle"
    /\ Len(hist) < MaxRuns
    /\ LET file == files[scene.external_ambf_yaml_filepath]
       IN  IF ~IsDocument(file)
           THEN /\ Raise("import raised")
                /\ UNCHANGED <<scene, CommonConfig, importer>>
           ELSE LET doc == yaml_load(file)
                    namespace == IF doc.namespace # "" THEN doc.namespace ELSE "/ambf/env/"
                    qualified == IF SubSeq(namespace, Len(namespace), Len(namespace)) # "/"
                                 THEN namespace \o "/" ELSE namespace
                IN  /\ Len(objects) + Len(doc.bodies) + Len(doc.joints) <= MaxObjects
                    /\ CommonConfig' = [CommonConfig EXCEPT !.namespace = qualified]
                    /\ scene' = [scene EXCEPT !.ambf_namespace = qualified]
                    /\ importer' = [NoImporter EXCEPT !.ambf_data = doc]
                    /\ op' = [name |-> "import", pc |-> "calls", i |-> 1]
                    /\ UNCHANGED hist
    /\ UNCHANGED <<objects, active, files, os_name, exporter, hier, shape>>

\* load_body, the rigid body of obj_handle after the loader chosen by
\* enable_legacy_loading: load_blender_rigid_body gives a mesh object a rigid
\* body (a convex hull unless the record names a shape), load_ambf_rigid_body
\* leaves obj.rigid_body alone
load_blender_rigid_body(body_data, obj_handle) ==
    IF scene.enable_legacy_loading /\ obj_handle.type = "MESH"
    THEN [present |-> TRUE,
          collision_shape |-> IF body_data.collision_shape # ""
                              THEN body_data.collision_shape
                              ELSE obj_handle.rigid_body.collision_shape]
    ELSE obj_handle.rigid_body

\* load_body, ambf_rigid_body_enable of obj_handle after the loader chosen by
\* enable_legacy_loading: load_ambf_rigid_body sets the flag of a mesh object
\* and leaves ambf_object_type alone
load_ambf_rigid_body(obj_handle) ==
    IF ~scene.enable_legacy_loading /\ obj_handle.type = "MESH"
    THEN TRUE
    ELSE obj_handle.ambf_rigid_body_enable

\* load_body
ImportBody ==
    /\ op.name = "import" /\ op.pc = "calls"
    /\ op.i <= Len(ImportCalls(importer.ambf_data, scene))
    /\ CurrentCall.call = "load_body"
    /\ LET body_name == CurrentCall.name
           body_data == importer.ambf_data.items[body_name]
           created == load_mesh_creates(body_data)
           logged == [importer EXCEPT !.events = Append(@, "load_body")]
       IN  IF load_mesh_finds_world(body_data)
           THEN \* load_mesh returns None and load_rigid_body_name fails on it
                /\ importer' =
                      [logged EXCEPT
                         !.blender_remapped_body_names =
                            Put(@, body_name,
                                objects[CHOOSE o \in ObjIds :
                                           /\ objects[o].type \in {"MESH", "EMPTY"}
                                           /\ objects[o].name \in WorldNames
                                           /\ \A q \in ObjIds :
                                                 (/\ objects[q].type \in {"MESH", "EMPTY"}
                                                  /\ objects[q].name \in WorldNames)
                                                 => o <= q].name),
                         !.body_T_j_c = Put(@, body_name, Zero3)]
                /\ Raise("import raised")
                /\ UNCHANGED <<objects, active, CommonConfig>>
           ELSE IF created = "" /\ active = None
           THEN \* nothing was created and no object is active: obj_handle is None
                /\ importer' = logged
                /\ Raise("import raised")
                /\ UNCHANGED <<objects, active, CommonConfig>>
           ELSE LET spawned == IF created = ""
                               THEN objects
                               ELSE Append(objects, NewObject("", created))
                    obj_handle == IF created = "" THEN active ELSE Len(spawned)
                    want == IF body_data.namespace # ""
                            THEN body_data.namespace \o body_data.name
                            ELSE add_namespace_prefix(body_data.name)
                    name == UniqueName(want, obj_handle)
                IN  /\ objects' = [spawned EXCEPT
                                     ![obj_handle].name = name,
                                     ![obj_handle].rigid_body =
                                          load_blender_rigid_body(body_data,
                                                                  spawned[obj_handle]),
                                     ![obj_handle].ambf_rigid_body_enable =
                                          load_ambf_rigid_body(spawned[obj_handle]),
                                     ![obj_handle].location = body_data.location.position,
                                     ![obj_handle].rotation_euler =
                                          body_data.location.orientation]
                    /\ active' = obj_handle
                    /\ CommonConfig' = [CommonConfig EXCEPT !.loaded_body_map =
                                           Put(@, obj_handle, body_data)]
                    /\ importer' =
                          [logged EXCEPT
                             !.blender_remapped_body_names = Put(@, body_name, name),
                             !.body_T_j_c = Put(@, body_name, Zero3)]
                    /\ op' = [op EXCEPT !.i = @ + 1]
                    /\ UNCHANGED hist
    /\ UNCHANGED <<scene, files, os_name, exporter, hier, shape>>

\* adjust_body_pivots_and_axis, the whole pass
ImportAdjust ==
    /\ op.name = "import" /\ op.pc = "calls"
    /\ op.i <= Len(ImportCalls(importer.ambf_data, scene))
    /\ CurrentCall.call = "adjust_body_pivots_and_axis"
    /\ LET out == adjust_body_pivots_and_axis(importer, 1)
       IN  /\ importer' = [out.im EXCEPT !.events = Append(@, "adjust_body_pivots_and_axis")]
           /\ IF out.raised
              THEN Raise("import raised")
              ELSE /\ op' = [op EXCEPT !.i = @ + 1]
                   /\ UNCHANGED hist
    /\ UNCHANGED <<objects, active, scene, CommonConfig, files, os_name, exporter,
                   hier, shape>>

\* load_blender_joint (legacy loading) or load_ambf_joint
ImportJoint ==
    /\ op.name = "import" /\ op.pc = "calls"
    /\ op.i <= Len(ImportCalls(importer.ambf_data, scene))
    /\ CurrentCall.call = "load_joint"
    /\ importer' = [importer EXCEPT !.events = Append(@, "load_joint")]
    /\ LET joint_data == importer.ambf_data.items[CurrentCall.name]
           remapped == importer.blender_remapped_body_names
       IN  IF \/ joint_data.parent \notin DOMAIN remapped
              \/ joint_data.child \notin DOMAIN remapped
              \/ ~IsObjectName(remapped[joint_data.parent])
              \/ ~IsObjectName(remapped[joint_data.child])
           THEN \* get_parent_and_child_object_handles: KeyError
                /\ Raise("import raised")
                /\ UNCHANGED <<objects, active>>
           ELSE LET parent_obj_handle == ObjectNamed(remapped[joint_data.parent])
                    child_obj_handle == ObjectNamed(remapped[joint_data.child])
                    T_j_p == get_joint_in_parent_transform(importer, parent_obj_handle,
                                                           joint_data)
                    T_c_p == get_child_in_parent_transform(importer, parent_obj_handle,
                                                           joint_data)
                    new == Len(objects) + 1
                    joint_name == joint_data.name
                    loaded ==
                       IF scene.enable_legacy_loading
                       THEN LET own == is_detached_joint(joint_data)
                                joint_obj_handle == IF own THEN new ELSE child_obj_handle
                                objs1 ==
                                    IF own
                                    THEN Append(objects,
                                           NewObject(UniqueName(
                                              IF has_detached_prefix(joint_name)
                                              THEN joint_name
                                              ELSE "detached joint " \o joint_name, new),
                                              "EMPTY"))
                                    ELSE objects
                                objs2 == [objs1 EXCEPT ![joint_obj_handle].location = T_c_p]
                                objs3 == make_obj1_parent_of_obj2(objs2, parent_obj_handle,
                                                                  joint_obj_handle)
                            IN  IF parent_set_raises(objs2, parent_obj_handle,
                                                     joint_obj_handle)
                                THEN [raised |-> TRUE, objects |-> objs2,
                                      active |-> parent_obj_handle]
                                ELSE
                                [raised |-> FALSE,
                                 objects |->
                                      [objs3 EXCEPT ![joint_obj_handle].rigid_body_constraint =
                                          set_blender_constraint_params(
                                             [objs3[joint_obj_handle].rigid_body_constraint
                                                EXCEPT
                                                !.type = constraint_add(objs3[joint_obj_handle],
                                                            get_blender_joint_type(joint_data)),
                                                !.object1 = parent_obj_handle,
                                                !.object2 = child_obj_handle],
                                             joint_data),
                                         ![joint_obj_handle].ambf_enable_joint_props =
                                             IF loads_controller(joint_data) THEN TRUE ELSE @,
                                         ![joint_obj_handle].ambf_joint_controller_p_gain =
                                             IF loads_controller(joint_data)
                                             THEN joint_data.controller.P ELSE @,
                                         ![joint_obj_handle].ambf_joint_controller_d_gain =
                                             IF loads_controller(joint_data)
                                             THEN joint_data.controller.D ELSE @],
                                 active |-> joint_obj_handle]
                       ELSE LET objs1 == Append(objects,
                                           NewObject(UniqueName(joint_name, new), "EMPTY"))
                                objs2 == [objs1 EXCEPT ![new].location = T_j_p,
                                                       ![child_obj_handle].location = T_c_p]
                                objs3 == make_obj1_parent_of_obj2(objs2, parent_obj_handle, new)
                                objs4 == make_obj1_parent_of_obj2(objs3, new, child_obj_handle)
                            IN  IF parent_set_raises(objs3, new, child_obj_handle)
                                THEN [raised |-> TRUE, objects |-> objs3, active |-> new]
                                ELSE
                                [raised |-> FALSE,
                                 objects |->
                                      [objs4 EXCEPT ![new] =
                                          set_ambf_constraint_params(
                                             [objs4[new] EXCEPT
                                                !.ambf_constraint_enable = TRUE,
                                                !.ambf_object_type = "CONSTRAINT",
                                                !.ambf_constraint =
                                                [NoConstraint EXCEPT
                                                   !.type = get_ambf_joint_type(joint_data),
                                                   !.object1 = parent_obj_handle,
                                                   !.object2 = child_obj_handle]],
                                             joint_data)],
                                 active |-> new]
                IN  /\ objects' = loaded.objects
                    /\ active' = loaded.active
                    /\ IF loaded.raised
                       THEN \* parent_set: RuntimeError, "Loop in parents"
                            Raise("import raised")
                       ELSE /\ op' = [op EXCEPT !.i = @ + 1]
                            /\ UNCHANGED hist
    /\ UNCHANGED <<scene, CommonConfig, files, os_name, exporter, hier, shape>>

\* execute returns {'FINISHED'}
ImportDone ==
    /\ op.name = "import" /\ op.pc = "calls"
    /\ op.i > Len(ImportCalls(importer.ambf_data, scene))
    /\ Finish("import")
    /\ UNCHANGED <<objects, active, scene, CommonConfig, files, os_name, exporter, importer,
                   hier, shape>>

\* the user deletes every object of the scene; the scene properties and the
\* files stay, and so does CommonConfig.loaded_body_map, whose keys are the
\* handles of the deleted objects: the host invalidates them, so that they
\* are the handle of no object created later
ClearScene ==
    /\ op.name = "idle"
    /\ Len(hist) < MaxRuns
    /\ objects # <<>>
    /\ objects' = <<>>
    /\ active' = None
    /\ CommonConfig' = [CommonConfig EXCEPT !.loaded_body_map = <<>>]
    /\ hist' = Append(hist, "clear")
    /\ UNCHANGED <<scene, files, os_name, op, exporter, importer, hier, shape>>

\* AMBF_OT_ambf_rigid_body_activate.execute, on context.object
RigidBodyActivate ==
    /\ op.name = "idle"
    /\ Len(hist) < MaxRuns
    /\ IF active = None
       THEN \* context.object is None
            /\ Raise("activate raised")
            /\ UNCHANGED objects
       ELSE /\ objects' = [objects EXCEPT
                             ![active].ambf_rigid_body_enable = ~@,
                             ![active].ambf_object_type =
                                 IF ~objects[active].ambf_rigid_body_enable
                                 THEN "RIGID_BODY" ELSE "NONE"]
            /\ Finish("ambf_rigid_body_activate")
    /\ UNCHANGED <<active, scene, CommonConfig, files, os_name, exporter, importer,
                   hier, shape>>

\* AMBF_OT_ambf_constraint_activate.execute, on context.object
ConstraintActivate ==
    /\ op.name = "idle"
    /\ Len(hist) < MaxRuns
    /\ IF active = None
       THEN \* context.object is None
            /\ Raise("activate raised")
            /\ UNCHANGED objects
       ELSE /\ objects' = [objects EXCEPT
                             ![active].ambf_constraint_enable = ~@,
                             ![active].ambf_object_type =
                                 IF ~objects[active].ambf_constraint_enable
                                 THEN "CONSTRAINT" ELSE "NONE"]
            /\ Finish("ambf_constraint_activate")
    /\ UNCHANGED <<active, scene, CommonConfig, files, os_name, exporter, importer,
                   hier, shape>>

----------------------------------------------------------------------------
(***************************************************************************)
(* Specification of the traversal: a forest, and two scenes holding it     *)
(* that enumerate their objects and children in orders of their own.       *)
(***************************************************************************)
\* the session's variables where no session runs
NoSession ==
    /\ objects = <<>>
    /\ active = None
    /\ scene = DefaultScene
    /\ CommonConfig = NoCommonConfig
    /\ files = [p \in Paths |-> Absent]
    /\ os_name = "posix"
    /\ op = Idle
    /\ exporter = NoExporter
    /\ importer = NoImporter
    /\ hist = <<>>

NoShape == [dims |-> <<>>, done |-> FALSE, major |-> 0, minor |-> 0, median |-> 0]
NoHier == [parent |-> <<>>, doneA |-> FALSE, doneB |-> FALSE, listA |-> <<>>, listB |-> <<>>]

InitTree ==
    /\ \E p \in Forests :
          hier = [parent |-> p, doneA |-> FALSE, doneB |-> FALSE,
                  listA |-> <<>>, listB |-> <<>>]
    /\ shape = NoShape
    /\ NoSession

PopulateA ==
    /\ ~hier.doneA
    /\ \E o \in Perms, k \in Perms :
          hier' = [hier EXCEPT !.doneA = TRUE,
                     !.listA = populate_heirarchial_tree(
                                  [parent |-> hier.parent, objects |-> o, kids |-> k])]
    /\ UNCHANGED <<shape, sessionVars>>

PopulateB ==
    /\ ~hier.doneB
    /\ \E o \in Perms, k \in Perms :
          hier' = [hier EXCEPT !.doneB = TRUE,
                     !.listB = populate_heirarchial_tree(
                                  [parent |-> hier.parent, objects |-> o, kids |-> k])]
    /\ UNCHANGED <<shape, sessionVars>>

NextTree == PopulateA \/ PopulateB

SpecTree == InitTree /\ [][NextTree]_vars

(***************************************************************************)
(* Specification of the axis classification.                               *)
(***************************************************************************)
InitAxis ==
    /\ hier = NoHier
    /\ \E x \in Dims, y \in Dims, z \in Dims :
          shape = [dims |-> [i \in Axes |-> <<x, y, z>>[i + 1]], done |-> FALSE,
                   major |-> 0, minor |-> 0, median |-> 0]
    /\ NoSession

ClassifyAxes ==
    /\ ~shape.done
    /\ shape' = [shape EXCEPT !.done = TRUE,
                   !.major = get_major_axis(shape.dims),
                   !.minor = get_minor_axis(shape.dims),
                   !.median = get_median_axis(shape.dims)]
    /\ UNCHANGED <<hier, sessionVars>>

NextAxis == ClassifyAxes

SpecAxis == InitAxis /\ [][NextAxis]_vars

----------------------------------------------------------------------------
(***************************************************************************)
(* Specification of a session: a scene, a target file, and the user        *)
(* running the operators one after another.  The mesh files a document     *)
(* names are on disk where the importer looks for them.                    *)
(***************************************************************************)
Body(name, x) == [NewObject(name, "MESH") EXCEPT !.location = <<x, 0, 0>>]

Hinge(object1, object2) ==
    [NoConstraint EXCEPT !.type = "HINGE", !.object1 = object1, !.object2 = object2,
                         !.use_limit_ang_z = TRUE]

\* two bodies joined by a hinge the child holds
ChainScene(ax, bx) ==
    <<Body("A", ax),
      [Body("B", bx) EXCEPT !.parent = 1, !.rigid_body_constraint = Hinge(1, 2)]>>

\* a chain of three bodies closed by a placeholder between the first and the last
LoopScene(placeholder) ==
    <<Body("A", 0),
      [Body("B", 1000) EXCEPT !.parent = 1, !.rigid_body_constraint = Hinge(1, 2)],
      [Body("C", 2000) EXCEPT !.parent = 2, !.rigid_body_constraint = Hinge(2, 3)],
      [NewObject(placeholder, "EMPTY") EXCEPT
          !.location = <<1000, 0, 0>>, !.parent = 1,
          !.rigid_body_constraint = Hinge(1, 3)]>>

\* a chain whose root is the world body
WorldScene ==
    <<Body("world", 0),
      [Body("B", 1000) EXCEPT !.parent = 1, !.rigid_body_constraint = Hinge(1, 2)]>>

\* a body hinged to an empty that serves as its anchor and whose name starts
\* with one of the detached prefixes
AnchorScene ==
    <<NewObject("detached anchor", "EMPTY"),
      [Body("B", 1000) EXCEPT !.parent = 1, !.rigid_body_constraint = Hinge(1, 2)]>>

\* the records of a document written by hand
DocBody(name, mesh, x) ==
    [kind |-> "body", name |-> name, namespace |-> "", mesh |-> mesh,
     location |-> [position |-> <<x, 0, 0>>, orientation |-> Zero3],
     collision_shape |-> "", collision_geometry |-> Zero3]

DocJoint(parent, child, parent_pivot, child_pivot, detached) ==
    [kind |-> "joint", name |-> parent \o "-" \o child,
     parent |-> add_body_prefix_str(parent), child |-> add_body_prefix_str(child),
     parent_pivot |-> parent_pivot, parent_axis |-> UnitAxis(2),
     child_pivot |-> child_pivot, child_axis |-> UnitAxis(2),
     type |-> "revolute", joint_limits |-> TemplateLimits, offset |-> 0,
     controller |-> [has |-> FALSE, P |-> 0, I |-> 0, D |-> 0],
     detached |-> detached]

\* a closed chain whose detached joint stands first in the joints list
DocDetachedFirst ==
    [bodies |-> <<"BODY A", "BODY B", "BODY C">>,
     joints |-> <<"JOINT A-C", "JOINT A-B", "JOINT B-C">>,
     namespace |-> "",
     items |-> [k \in {"BODY A", "BODY B", "BODY C", "JOINT A-C", "JOINT A-B", "JOINT B-C"} |->
                  CASE k = "BODY A" -> DocBody("A", "A.STL", 0)
                    [] k = "BODY B" -> DocBody("B", "B.STL", 1000)
                    [] k = "BODY C" -> DocBody("C", "C.STL", 2000)
                    [] k = "JOINT A-C" ->
                          DocJoint("A", "C", <<1000, 0, 0>>, <<-1000, 0, 0>>, TRUE)
                    [] k = "JOINT A-B" ->
                          DocJoint("A", "B", <<1500, 0, 0>>, <<500, 0, 0>>, FALSE)
                    [] k = "JOINT B-C" ->
                          DocJoint("B", "C", <<1500, 0, 0>>, <<500, 0, 0>>, FALSE)]]

\* three bodies, the second with a mesh file of a kind load_mesh has no branch for
DocBadMesh ==
    [bodies |-> <<"BODY A", "BODY B", "BODY C">>,
     joints |-> <<>>,
     namespace |-> "",
     items |-> [k \in {"BODY A", "BODY B", "BODY C"} |->
                  CASE k = "BODY A" -> DocBody("A", "A.STL", 0)
                    [] k = "BODY B" -> DocBody("B", "B.PLY", 1000)
                    [] k = "BODY C" -> DocBody("C", "C.STL", 2000)]]

\* one body with a box as collision shape, tuned by hand to half the size of
\* the bounding box of its mesh
DocBoxShape ==
    [bodies |-> <<"BODY A">>,
     joints |-> <<>>,
     namespace |-> "",
     items |-> [k \in {"BODY A"} |->
                  [DocBody("A", "A.STL", 0) EXCEPT
                      !.collision_shape = "BOX",
                      !.collision_geometry = <<1000, 1000, 1000>>]]]

\* two bodies, each the parent of the other through a joint
DocParentLoop ==
    [bodies |-> <<"BODY P", "BODY C">>,
     joints |-> <<"JOINT P-C", "JOINT C-P">>,
     namespace |-> "",
     items |-> [k \in {"BODY P", "BODY C", "JOINT P-C", "JOINT C-P"} |->
                  CASE k = "BODY P" -> DocBody("P", "P.STL", 0)
                    [] k = "BODY C" -> DocBody("C", "C.STL", 1000)
                    [] k = "JOINT P-C" -> DocJoint("P", "C", <<1000, 0, 0>>, Zero3, FALSE)
                    [] k = "JOINT C-P" -> DocJoint("C", "P", <<-1000, 0, 0>>, Zero3, FALSE)]]

\* what the target path may hold when the session starts
InitialFiles ==
    {Absent, [exists |-> TRUE, data |-> <<TextChunk>>],
     [exists |-> TRUE, data |-> <<YamlChunk(DocParentLoop)>>],
     [exists |-> TRUE, data |-> <<YamlChunk(DocBoxShape)>>],
     [exists |-> TRUE, data |-> <<YamlChunk(DocDetachedFirst)>>],
     [exists |-> TRUE, data |-> <<YamlChunk(DocBadMesh)>>]}

PlaceholderNames == {"detached A-C", "detacheddetached", "/ambf/env/Redundant redundant"}

Scenes ==
    {ChainScene(ax, bx) : ax \in {0, 4}, bx \in {1000, 1008}}
    \cup {LoopScene(n) : n \in PlaceholderNames}
    \cup {WorldScene, AnchorScene}

Init ==
    /\ objects \in Scenes
    /\ active = None
    /\ \E legacy \in BOOLEAN, adjust \in BOOLEAN :
          scene = [DefaultScene EXCEPT !.enable_legacy_loading = legacy,
                                       !.adjust_joint_pivots = adjust]
    /\ CommonConfig = NoCommonConfig
    /\ \E before \in InitialFiles :
          files = [p \in Paths |-> IF p = TargetPath THEN before ELSE Absent]
    /\ os_name \in {"posix", "nt"}
    /\ op = Idle
    /\ exporter = NoExporter
    /\ importer = NoImporter
    /\ hist = <<>>
    /\ hier = NoHier
    /\ shape = NoShape

Next ==
    \/ ExportOpen
    \/ ExportNamespace
    \/ ExportBody
    \/ ExportJoint
    \/ ExportDump
    \/ ExportHeader
    \/ ImportOpen
    \/ ImportBody
    \/ ImportAdjust
    \/ ImportJoint
    \/ ImportDone
    \/ ClearScene

Spec == Init /\ [][Next]_vars

----------------------------------------------------------------------------
(***************************************************************************)
(* Specification of the export of one joint: a parent at the origin, a     *)
(* child at (1, 0, 0) that holds a constraint of any kind with any         *)
(* combination of limit flags, and the user running the export.            *)
(***************************************************************************)
ConstraintKinds == {"HINGE", "SLIDER", "GENERIC", "GENERIC_SPRING", "POINT", "FIXED"}

\* limits that tell the six flags apart
SomeUpper == [lin_x |-> 1000, lin_y |-> 2000, lin_z |-> 3000,
              ang_x |-> 4000, ang_y |-> 5000, ang_z |-> 6000]
SomeLower == [lin_x |-> -1000, lin_y |-> -2000, lin_z |-> -3000,
              ang_x |-> -4000, ang_y |-> -5000, ang_z |-> -6000]

JointConstraints ==
    {[type |-> t, object1 |-> 1, object2 |-> 2,
      use_limit_lin_x |-> lx, use_limit_lin_y |-> ly, use_limit_lin_z |-> lz,
      use_limit_ang_x |-> ax, use_limit_ang_y |-> ay, use_limit_ang_z |-> az,
      limit_upper |-> SomeUpper, limit_lower |-> SomeLower] :
        t \in ConstraintKinds, lx \in BOOLEAN, ly \in BOOLEAN, lz \in BOOLEAN,
        ax \in BOOLEAN, ay \in BOOLEAN, az \in BOOLEAN}

JointScene(constraint, enabled) ==
    <<Body("A", 0),
      [Body("B", 10000) EXCEPT !.parent = 1, !.rigid_body_constraint = constraint,
                               !.ambf_enable_joint_props = enabled]>>

InitJoint ==
    /\ \E constraint \in JointConstraints, enabled \in BOOLEAN :
          objects = JointScene(constraint, enabled)
    /\ active = None
    /\ scene = DefaultScene
    /\ CommonConfig = NoCommonConfig
    /\ files = [p \in Paths |-> Absent]
    /\ os_name = "posix"
    /\ op = Idle
    /\ exporter = NoExporter
    /\ importer = NoImporter
    /\ hist = <<>>
    /\ hier = NoHier
    /\ shape = NoShape

NextJoint ==
    \/ ExportOpen
    \/ ExportNamespace
    \/ ExportBody
    \/ ExportJoint
    \/ ExportDump
    \/ ExportHeader

SpecJoint == InitJoint /\ [][NextJoint]_vars

----------------------------------------------------------------------------
(***************************************************************************)
(* Specification of the parameters a joint's constraint is given on        *)
(* import: one joint record with limits and an offset, the three scene     *)
(* settings, and the step of load_blender_joint or load_ambf_joint that    *)
(* sets the parameters of the constraint just created.                     *)
(***************************************************************************)
JointTypes == {"revolute", "prismatic", "linear spring", "torsion spring",
               "continuous", "fixed"}
SomeLimits == {[has |-> "none", low |-> 0, high |-> 0],
               [has |-> "bounds", low |-> -5000, high |-> 5000],
               [has |-> "bounds", low |-> 0, high |-> 15000]}
SomeOffsets == {0, 2500, -7500}

JointRecords ==
    {[DocJoint("A", "B", <<10000, 0, 0>>, Zero3, FALSE) EXCEPT
         !.type = t, !.joint_limits = l, !.offset = o] :
        t \in JointTypes, l \in SomeLimits, o \in SomeOffsets}

InitLimits ==
    /\ \E joint_data \in JointRecords :
          /\ importer = [NoImporter EXCEPT
                           !.ambf_data = [bodies |-> <<>>, joints |-> <<"JOINT A-B">>,
                                          namespace |-> "",
                                          items |-> [k \in {"JOINT A-B"} |-> joint_data]]]
          /\ \E legacy \in BOOLEAN, adjust \in BOOLEAN, ignore \in BOOLEAN :
                /\ scene = [DefaultScene EXCEPT !.enable_legacy_loading = legacy,
                                                !.adjust_joint_pivots = adjust,
                                                !.ignore_ambf_joint_offsets = ignore]
                /\ objects =
                      <<IF legacy
                        THEN [Body("B", 10000) EXCEPT
                                !.rigid_body_constraint.type =
                                    get_blender_joint_type(joint_data)]
                        ELSE [NewObject("A-B", "EMPTY") EXCEPT
                                !.ambf_constraint.type = get_ambf_joint_type(joint_data)]>>
    /\ active = 1
    /\ CommonConfig = NoCommonConfig
    /\ files = [p \in Paths |-> Absent]
    /\ os_name = "posix"
    /\ op = [name |-> "import", pc |-> "params", i |-> 1]
    /\ exporter = NoExporter
    /\ hist = <<>>
    /\ hier = NoHier
    /\ shape = NoShape

\* load_blender_joint and load_ambf_joint, the call that sets the parameters
LoadJointParams ==
    /\ op.name = "import" /\ op.pc = "params"
    /\ LET joint_data == importer.ambf_data.items[importer.ambf_data.joints[op.i]]
       IN  objects' =
              IF scene.enable_legacy_loading
              THEN [objects EXCEPT ![active].rigid_body_constraint =
                       set_blender_constraint_params(@, joint_data)]
              ELSE [objects EXCEPT ![active] = set_ambf_constraint_params(@, joint_data)]
    /\ op' = [op EXCEPT !.pc = "params set"]
    /\ UNCHANGED <<active, scene, CommonConfig, files, os_name, exporter, importer, hist,
                   hier, shape>>

NextLimits == LoadJointParams

SpecLimits == InitLimits /\ [][NextLimits]_vars

----------------------------------------------------------------------------
(***************************************************************************)
(* Specification of repeated exports of one scene, the user never editing  *)
(* it, from different values of the scene's namespace property.            *)
(***************************************************************************)
StartingNamespaces == {"/ambf/env/", "/ambf/env", "ns", "/", "a/b"}

InitNamespace ==
    /\ objects = ChainScene(0, 1000)
    /\ active = None
    /\ \E ns \in StartingNamespaces : scene = [DefaultScene EXCEPT !.ambf_namespace = ns]
    /\ CommonConfig = NoCommonConfig
    /\ \E before \in {Absent, [exists |-> TRUE, data |-> <<TextChunk>>]} :
          files = [p \in Paths |-> IF p = TargetPath THEN before ELSE Absent]
    /\ os_name = "posix"
    /\ op = Idle
    /\ exporter = NoExporter
    /\ importer = NoImporter
    /\ hist = <<>>
    /\ hier = NoHier
    /\ shape = NoShape

NextNamespace ==
    \/ ExportOpen
    \/ ExportNamespace
    \/ ExportBody
    \/ ExportJoint
    \/ ExportDump
    \/ ExportHeader

SpecNamespace == InitNamespace /\ [][NextNamespace]_vars

----------------------------------------------------------------------------
(***************************************************************************)
(* Specification of a session on a scene of one body, over the names the   *)
(* body may have and the mesh output types the user may select.            *)
(***************************************************************************)
BodyNames == {"A", "/A", "ns/A", "/ambf/env/A", "/ambf/sim/A"}
MeshOutputTypes == {0, 1, 2, 3}

InitBody ==
    /\ \E name \in BodyNames : objects = <<Body(name, 0)>>
    /\ active = None
    /\ \E type \in MeshOutputTypes : scene = [DefaultScene EXCEPT !.mesh_output_type = type]
    /\ CommonConfig = NoCommonConfig
    /\ files = [p \in Paths |-> Absent]
    /\ os_name = "posix"
    /\ op = Idle
    /\ exporter = NoExporter
    /\ importer = NoImporter
    /\ hist = <<>>
    /\ hier = NoHier
    /\ shape = NoShape

\* the document of one body has no joint to load and no pass to run
NextBody ==
    \/ ExportOpen
    \/ ExportNamespace
    \/ ExportBody
    \/ ExportJoint
    \/ ExportDump
    \/ ExportHeader
    \/ ImportOpen
    \/ ImportBody
    \/ ImportDone
    \/ ClearScene

SpecBody == InitBody /\ [][NextBody]_vars

----------------------------------------------------------------------------
(***************************************************************************)
(* Specification of the object type: native-mode imports of a document of  *)
(* one body, and the user pressing the two activate buttons on the active  *)
(* object.                                                                 *)
(***************************************************************************)
InitActivate ==
    /\ objects = <<Body("B", 0)>>
    /\ active \in {None, 1}
    /\ scene = DefaultScene
    /\ CommonConfig = NoCommonConfig
    /\ \E before \in {Absent, [exists |-> TRUE, data |-> <<YamlChunk(DocBoxShape)>>]} :
          files = [p \in Paths |-> IF p = TargetPath THEN before ELSE Absent]
    /\ os_name = "posix"
    /\ op = Idle
    /\ exporter = NoExporter
    /\ importer = NoImporter
    /\ hist = <<>>
    /\ hier = NoHier
    /\ shape = NoShape

NextActivate ==
    \/ ImportOpen
    \/ ImportBody
    \/ ImportDone
    \/ RigidBodyActivate
    \/ ConstraintActivate

SpecActivate == InitActivate /\ [][NextActivate]_vars


----------------------------------------------------------------------------
(***************************************************************************)
(* Properties of the traversal (SpecTree).                                 *)
(***************************************************************************)
RECURSIVE Ancestors(_, _)
Ancestors(p, o) == IF p[o] = None THEN {} ELSE {p[o]} \cup Ancestors(p, p[o])

Positions(l, o) == {i \in 1..Len(l) : l[i] = o}

\* C1: in the list returned by populate_heirarchial_tree every object stands
\* at a later position than its parent and than every other ancestor.
C1_ParentBeforeChild ==
    hier.doneA =>
        \A o \in Obj : \A a \in Ancestors(hier.parent, o) :
            /\ Positions(hier.listA, o) # {}
            /\ \A i \in Positions(hier.listA, o) :
                  \E j \in Positions(hier.listA, a) : j < i

\* a forest with two roots and a chain of depth two has been traversed
C1_Witness ==
    /\ hier.doneA
    /\ Cardinality({o \in Obj : hier.parent[o] = None}) >= 2
    /\ \E o \in Obj : Cardinality(Ancestors(hier.parent, o)) >= 1
    /\ Len(hier.listA) = NumObjs

\* C2: the returned list holds every scene object exactly once.
C2_EveryObjectOnce ==
    hier.doneA => \A o \in Obj : Cardinality(Positions(hier.listA, o)) = 1

\* a root shared by all the objects: its pass is started again for each of them
C2_Witness ==
    /\ hier.doneA
    /\ Cardinality({o \in Obj : hier.parent[o] = None}) = 1
    /\ Len(hier.listA) = NumObjs

\* C3 as stated: two scenes holding the same forest return identical sequences.
C3_OrderIndependent ==
    (hier.doneA /\ hier.doneB) => hier.listA = hier.listB

\* C3 amended: the two sequences hold the same objects, each once; only the
\* order of the sequence follows the scenes' enumeration orders.
C3_SameObjects ==
    (hier.doneA /\ hier.doneB) =>
        /\ Len(hier.listA) = Len(hier.listB)
        /\ \A o \in Obj : Cardinality(Positions(hier.listA, o))
                            = Cardinality(Positions(hier.listB, o))

\* both scenes have been traversed and the sequences differ
C3_Witness ==
    /\ hier.doneA /\ hier.doneB
    /\ hier.listA # hier.listB
    /\ Len(hier.listA) = NumObjs

(***************************************************************************)
(* Properties of the axis classification (SpecAxis).                       *)
(***************************************************************************)
AllEqual(d) == d[0] = d[1] /\ d[1] = d[2]

\* C9: the major, minor and median indices are pairwise distinct and are
\* together {0,1,2}; with three equal dimensions the major axis is 2 (z).
C9_AxesDistinct ==
    shape.done =>
        /\ shape.major # shape.minor
        /\ shape.minor # shape.median
        /\ shape.major # shape.median
        /\ {shape.major, shape.minor, shape.median} = Axes
        /\ AllEqual(shape.dims) => shape.major = 2

\* a triple with all dimensions equal has been classified
C9_Witness == shape.done /\ AllEqual(shape.dims) /\ shape.dims[0] > 0

IsArgMax(l, i) == \A j \in Axes : l[j] <= l[i]
IsArgMin(l, i) == \A j \in Axes : l[j] >= l[i]

\* C10: for a triple that is not all-equal, get_major_axis returns an index of
\* the largest score, get_minor_axis an index of the smallest score and
\* get_median_axis the remaining index.
C10_MinorIsArgMin ==
    (shape.done /\ ~AllEqual(shape.dims)) =>
        /\ IsArgMax(SumDiff(shape.dims), shape.major)
        /\ IsArgMin(SumDiff(shape.dims), shape.minor)
        /\ shape.median \in Axes \ {shape.major, shape.minor}


----------------------------------------------------------------------------
(***************************************************************************)
(* Properties of a session.                                                *)
(***************************************************************************)
Range(f) == {f[i] : i \in DOMAIN f}
Count(ev, a) == Cardinality({i \in DOMAIN ev : ev[i] = a})
AllBefore(ev, a, b) == \A i, j \in DOMAIN ev : (ev[i] = a /\ ev[j] = b) => i < j
StartsWith(s, pre) == Len(s) >= Len(pre) /\ SubSeq(s, 1, Len(pre)) = pre

IsPlaceholder(o) ==
    /\ objects[o].type = "EMPTY"
    /\ \E k \in 1..Len(detached_joint_prefix) :
          StartsWith(remove_namespace_prefix(objects[o].name), detached_joint_prefix[k])

\* C5: while an export runs, no detached-joint placeholder of the scene is in
\* the bodies list or has a body sub-mapping, whatever follows the prefix in
\* its name.
C5_PlaceholderNeverBody ==
    op.name = "export" =>
       \A o \in ObjIds :
          IsPlaceholder(o) =>
             LET key == add_body_prefix_str(remove_namespace_prefix(objects[o].name))
             IN  /\ key \notin Range(exporter.body_names_list)
                 /\ key \notin DOMAIN exporter.ambf_yaml.items

\* C6: when an export has dumped its document, every visible placeholder whose
\* constraint joins two visible bodies has a joint record in the joints list
\* that is flagged detached and whose parent and child are in the bodies list.
C6_PlaceholderHasJoint ==
    (op.name = "export" /\ op.pc = "header") =>
       \A o \in ObjIds :
          LET c == objects[o].rigid_body_constraint
              doc == exporter.ambf_yaml
          IN  (/\ IsPlaceholder(o)
               /\ ~objects[o].hide
               /\ c.type # "NONE" /\ c.object1 # None /\ c.object2 # None
               /\ ~objects[c.object1].hide /\ ~objects[c.object2].hide)
              => \E k \in 1..Len(doc.joints) :
                    LET rec == doc.items[doc.joints[k]]
                    IN  /\ rec.kind = "joint"
                        /\ rec.detached
                        /\ rec.parent = add_body_prefix_str(
                                           remove_namespace_prefix(objects[c.object1].name))
                        /\ rec.child = add_body_prefix_str(
                                          remove_namespace_prefix(objects[c.object2].name))
                        /\ rec.parent \in Range(doc.bodies)
                        /\ rec.child \in Range(doc.bodies)

\* C7: after export, clearing the scene, import and export, every body of the
\* first document (now at target + '.old') is in the second with the same
\* location position and orientation.
C7_RoundTripPose ==
    (op = Idle /\ hist = <<"export", "clear", "import", "export">>) =>
       LET doc1 == yaml_load(files[TargetPath \o ".old"])
           doc2 == yaml_load(files[TargetPath])
       IN  \A k \in 1..Len(doc1.bodies) :
              /\ doc1.bodies[k] \in DOMAIN doc2.items
              /\ doc2.items[doc1.bodies[k]].location = doc1.items[doc1.bodies[k]].location

\* C8: when an export that found a file at its target has finished, target +
\* '.old' holds exactly what the target held before, and the target holds the
\* header and the new document and nothing else.
C8_BackupKept ==
    (/\ op = Idle
     /\ hist # <<>> /\ hist[Len(hist)] = "export"
     /\ exporter.before.exists)
    => /\ files[TargetPath \o ".old"] = exporter.before
       /\ files[TargetPath] =
             [exists |-> TRUE, data |-> <<HeaderChunk, YamlChunk(exporter.ambf_yaml)>>]

\* a finished export over a target that held a document of an earlier export
C8_Witness ==
    /\ op = Idle
    /\ hist # <<>> /\ hist[Len(hist)] = "export"
    /\ exporter.before.exists
    /\ IsDocument(exporter.before)
    /\ files[TargetPath \o ".old"] = exporter.before
    /\ IsDocument(files[TargetPath])

----------------------------------------------------------------------------
(***************************************************************************)
(* Properties of the export of one joint.                                  *)
(***************************************************************************)
\* the constraint of the joint scene and the record the export wrote for it
TheConstraint == objects[2].rigid_body_constraint
HasJointRecord == "JOINT A-B" \in DOMAIN exporter.ambf_yaml.items
TheJointRecord == exporter.ambf_yaml.items["JOINT A-B"]

\* the first active flag in the order lin-x, lin-y, lin-z, ang-x, ang-y, ang-z
FirstActiveFlag(c) ==
    CASE c.use_limit_lin_x -> "lin_x"
      [] ~c.use_limit_lin_x /\ c.use_limit_lin_y -> "lin_y"
      [] ~c.use_limit_lin_x /\ ~c.use_limit_lin_y /\ c.use_limit_lin_z -> "lin_z"
      [] ~c.use_limit_lin_x /\ ~c.use_limit_lin_y /\ ~c.use_limit_lin_z
            /\ c.use_limit_ang_x -> "ang_x"
      [] ~c.use_limit_lin_x /\ ~c.use_limit_lin_y /\ ~c.use_limit_lin_z
            /\ ~c.use_limit_ang_x /\ c.use_limit_ang_y -> "ang_y"
      [] OTHER -> "ang_z"

AnyFlag(c) ==
    \/ c.use_limit_lin_x \/ c.use_limit_lin_y \/ c.use_limit_lin_z
    \/ c.use_limit_ang_x \/ c.use_limit_ang_y \/ c.use_limit_ang_z

AxisOfFlag(flag) ==
    CASE flag \in {"lin_x", "ang_x"} -> 0
      [] flag \in {"lin_y", "ang_y"} -> 1
      [] flag \in {"lin_z", "ang_z"} -> 2

\* C11: the record of a GENERIC constraint with at least one limit flag takes
\* its type, its limit bounds and the axis index of its parent and child axis
\* from one flag, the first active one in the order lin-x, lin-y, lin-z,
\* ang-x, ang-y, ang-z.
C11_GenericFromOneFlag ==
    (HasJointRecord /\ TheConstraint.type = "GENERIC" /\ AnyFlag(TheConstraint)) =>
       LET flag == FirstActiveFlag(TheConstraint)
       IN  /\ TheJointRecord.type =
                 IF flag \in {"lin_x", "lin_y", "lin_z"} THEN "prismatic" ELSE "revolute"
           /\ TheJointRecord.joint_limits =
                 [has |-> "bounds", low |-> TheConstraint.limit_lower[flag],
                  high |-> TheConstraint.limit_upper[flag]]
           /\ TheJointRecord.parent_axis = UnitAxis(AxisOfFlag(flag))
           /\ TheJointRecord.child_axis = UnitAxis(AxisOfFlag(flag))

\* C12 as stated: the hinge of the two-body chain exports parent pivot (0,0,0),
\* parent axis (0,0,1), child pivot (0,0,0), child axis (0,0,1), no offset, and
\* type revolute when limited, continuous when not.
C12_ChainExample ==
    (HasJointRecord /\ TheConstraint.type = "HINGE") =>
       /\ TheJointRecord.parent_pivot = <<0, 0, 0>>
       /\ TheJointRecord.parent_axis = <<0, 0, 1>>
       /\ TheJointRecord.child_pivot = <<0, 0, 0>>
       /\ TheJointRecord.child_axis = <<0, 0, 1>>
       /\ TheJointRecord.offset = 0
       /\ TheJointRecord.type =
             IF TheConstraint.use_limit_ang_z THEN "revolute" ELSE "continuous"

\* C12 amended: the same record with parent pivot (1,0,0), the child's origin
\* in the parent's frame.
C12_ChainExampleAmended ==
    (HasJointRecord /\ TheConstraint.type = "HINGE") =>
       /\ TheJointRecord.parent_pivot = <<10000, 0, 0>>
       /\ TheJointRecord.parent_axis = <<0, 0, 1>>
       /\ TheJointRecord.child_pivot = <<0, 0, 0>>
       /\ TheJointRecord.child_axis = <<0, 0, 1>>
       /\ TheJointRecord.offset = 0
       /\ TheJointRecord.type =
             IF TheConstraint.use_limit_ang_z THEN "revolute" ELSE "continuous"

\* a finished export of the chain with a limited hinge
C12_Witness ==
    /\ op = Idle /\ hist = <<"export">>
    /\ HasJointRecord
    /\ TheConstraint.type = "HINGE" /\ TheConstraint.use_limit_ang_z
    /\ objects[1].location = <<0, 0, 0>> /\ objects[2].location = <<10000, 0, 0>>
    /\ TheJointRecord.type = "revolute"

\* a constraint whose kind and flags map to no ADF joint type
MapsToNoType(c) == c.type \in {"GENERIC", "GENERIC_SPRING"} /\ ~AnyFlag(c)

\* C17: an export that meets a GENERIC or GENERIC_SPRING constraint with no
\* limit flag still completes and leaves a document that lists every body.
C17_UnmappedJointOnlySkipped ==
    (op = Idle /\ hist # <<>> /\ MapsToNoType(TheConstraint)) =>
       /\ hist[Len(hist)] = "export"
       /\ IsDocument(files[TargetPath])
       /\ {"BODY A", "BODY B"} \subseteq Range(yaml_load(files[TargetPath]).bodies)

\* C20: a joint record holds controller gains only when the joint is of a
\* revolute or prismatic kind and the enabled flag of the object holding the
\* constraint is set.
C20_ControllerOnlyWhenEnabled ==
    (HasJointRecord /\ TheJointRecord.controller.has) =>
       /\ TheJointRecord.type \in {"revolute", "continuous", "prismatic"}
       /\ objects[2].ambf_enable_joint_props

\* the flag whose limit pair assign_joint_params reads for a constraint
DecidingFlag(c) ==
    CASE c.type = "HINGE" -> "ang_z"
      [] c.type = "SLIDER" -> "lin_x"
      [] OTHER -> FirstActiveFlag(c)

\* C21: a joint record has no 'joint limits' entry when its type is fixed or
\* p2p, an entry without low and high when its type is continuous, and for
\* every other type an entry with low and high, the limit pair of the flag that
\* decided the type, rounded to three decimals.
C21_LimitsByType ==
    HasJointRecord =>
       LET r == TheJointRecord
           c == TheConstraint
       IN  /\ r.type \in {"fixed", "p2p"} => r.joint_limits.has = "none"
           /\ r.type = "continuous" => r.joint_limits.has = "empty"
           /\ r.type \notin {"fixed", "p2p", "continuous"} =>
                 /\ r.joint_limits.has = "bounds"
                 /\ r.joint_limits.low = Round3(c.limit_lower[DecidingFlag(c)])
                 /\ r.joint_limits.high = Round3(c.limit_upper[DecidingFlag(c)])

\* a torsion spring whose type the ang-y flag decided, exported with its limits
C21_Witness ==
    /\ HasJointRecord
    /\ TheConstraint.type = "GENERIC_SPRING"
    /\ TheJointRecord.type = "torsion spring"
    /\ DecidingFlag(TheConstraint) = "ang_y"
    /\ TheJointRecord.joint_limits.has = "bounds"
    /\ TheJointRecord.joint_limits.high = 5000

----------------------------------------------------------------------------
(***************************************************************************)
(* Properties of the parameters given to a constraint (SpecLimits).        *)
(***************************************************************************)
TheLoadedJoint == importer.ambf_data.items["JOINT A-B"]

\* the parameters of a revolute or spring joint with limits have been set
OffsetJointLoaded ==
    /\ op.name = "import" /\ op.pc = "params set"
    /\ TheLoadedJoint.type \in {"revolute", "linear spring", "torsion spring"}
    /\ TheLoadedJoint.joint_limits.has = "bounds"

\* the limit pair the importer gave to the constraint it created
GivenLimits ==
    IF scene.enable_legacy_loading
    THEN LET c == objects[1].rigid_body_constraint
             flag == IF TheLoadedJoint.type = "linear spring" THEN "lin_x" ELSE "ang_z"
         IN  [low |-> c.limit_lower[flag], high |-> c.limit_upper[flag]]
    ELSE [low |-> objects[1].ambf_constraint_limits_lower,
          high |-> objects[1].ambf_constraint_limits_higher]

----------------------------------------------------------------------------
(***************************************************************************)
(* Properties of the namespace (SpecNamespace).                            *)
(***************************************************************************)
EndsWithSlash(s) == Len(s) > 0 /\ SubSeq(s, Len(s), Len(s)) = "/"

\* the step in which an export runs update_global_namespace
NamespaceUpdated == op.name = "export" /\ op.pc = "namespace" /\ op'.pc = "calls"

\* C27: when an export has run update_global_namespace, the global namespace
\* and the scene's ambf_namespace are equal and end with '/', and once two
\* exports have finished the step changes neither.
C27_NamespaceSettles ==
    [][NamespaceUpdated =>
          /\ CommonConfig'.namespace = scene'.ambf_namespace
          /\ EndsWithSlash(CommonConfig'.namespace)
          /\ Count(hist, "export") >= 2 =>
                /\ scene'.ambf_namespace = scene.ambf_namespace
                /\ CommonConfig'.namespace = CommonConfig.namespace]_vars

----------------------------------------------------------------------------
(***************************************************************************)
(* Properties of the importer.                                             *)
(***************************************************************************)
NativeImportDone ==
    /\ op = Idle
    /\ hist # <<>> /\ hist[Len(hist)] = "import"
    /\ ~scene.enable_legacy_loading

\* the objects the importer mapped the parent and the child of joint k to
ParentOf(k) ==
    ObjectNamed(importer.blender_remapped_body_names[
                   importer.ambf_data.items[importer.ambf_data.joints[k]].parent])
ChildOf(k) ==
    ObjectNamed(importer.blender_remapped_body_names[
                   importer.ambf_data.items[importer.ambf_data.joints[k]].child])

\* h is the handle object of joint k
IsHandleOf(h, k) ==
    /\ objects[h].type = "EMPTY"
    /\ objects[h].ambf_constraint.type # "NONE"
    /\ objects[h].ambf_constraint.object1 = ParentOf(k)
    /\ objects[h].ambf_constraint.object2 = ChildOf(k)

\* the first joint of the list that has the child of joint k as its child
FirstJointOfChild(k) ==
    LET doc == importer.ambf_data
        same == {j \in 1..Len(doc.joints) :
                    doc.items[doc.joints[j]].child = doc.items[doc.joints[k]].child}
    IN  CHOOSE j \in same : \A i \in same : j <= i

\* C13 as stated: after a native import every joint of the document has a
\* handle object whose hierarchy parent is the joint's parent body, and the
\* joint's child body has that handle as its hierarchy parent.
C13_NativeHandles ==
    NativeImportDone =>
       \A k \in 1..Len(importer.ambf_data.joints) :
          \E h \in ObjIds :
             /\ IsHandleOf(h, k)
             /\ objects[h].parent = ParentOf(k)
             /\ objects[ChildOf(k)].parent = h

\* C13 amended: every joint has its handle under its parent body; the child
\* body is under the handle of the first joint of the list that names it as
\* child, since a body that has a hierarchy parent keeps it.
C13_NativeHandlesFirstJoint ==
    NativeImportDone =>
       \A k \in 1..Len(importer.ambf_data.joints) :
          /\ \E h \in ObjIds :
                /\ IsHandleOf(h, k)
                /\ objects[h].parent = ParentOf(k)
          /\ \E h \in ObjIds :
                /\ IsHandleOf(h, FirstJointOfChild(k))
                /\ objects[ChildOf(k)].parent = h

\* a native import of a document in which one body is the child of two joints
C13_Witness ==
    /\ NativeImportDone
    /\ Len(importer.ambf_data.joints) = 3
    /\ \E k \in 1..3 : FirstJointOfChild(k) # k

\* C14: once the alignment pass has run, every non-detached joint of the
\* document has its child pivot and child axis replaced by the standard ones
\* and the inverse of its child pivot recorded for its child body, wherever
\* the joint stands in the joints list.
C14_PassCoversAllJoints ==
    (op.name = "import" /\ "adjust_body_pivots_and_axis" \in Range(importer.events)) =>
       LET read == yaml_load(files[scene.external_ambf_yaml_filepath])
       IN  \A k \in 1..Len(read.joints) :
              LET was == read.items[read.joints[k]]
                  now == importer.ambf_data.items[read.joints[k]]
              IN  ~was.detached =>
                     /\ now.child_pivot = Zero3
                     /\ now.child_axis = standard_axis(was)
                     /\ importer.body_T_j_c[was.child] = VNeg(was.child_pivot)

\* an import of the document at the importer's path has ended, finished or not
ImportEnded ==
    /\ op = Idle
    /\ hist # <<>> /\ hist[Len(hist)] \in {"import", "import raised"}
    /\ IsDocument(files[scene.external_ambf_yaml_filepath])
    /\ importer.ambf_data.bodies = yaml_load(files[scene.external_ambf_yaml_filepath]).bodies

IsWorldObject(o) == objects[o].type \in {"MESH", "EMPTY"} /\ objects[o].name \in WorldNames

\* C15: an import of a document with a world body into a scene that holds a
\* world object maps the body to that object, makes no second world object,
\* and finishes with every body of the document mapped to an object.
C15_WorldDeduplicated ==
    (/\ ImportEnded
     /\ "BODY world" \in Range(importer.ambf_data.bodies)
     /\ \E o \in ObjIds : IsWorldObject(o))
    => /\ hist[Len(hist)] = "import"
       /\ Cardinality({o \in ObjIds : IsWorldObject(o)}) = 1
       /\ \A k \in 1..Len(importer.ambf_data.bodies) :
             /\ importer.ambf_data.bodies[k] \in DOMAIN importer.blender_remapped_body_names
             /\ IsObjectName(importer.blender_remapped_body_names[importer.ambf_data.bodies[k]])

\* C16: after an import of a document that has a body with a mesh file of an
\* unsupported kind, every other body of the document is an object of the
\* scene with the name the importer gave it and the position of its record.
C16_BadMeshConfined ==
    (/\ ImportEnded
     /\ \E k \in 1..Len(importer.ambf_data.bodies) :
           load_mesh_creates(importer.ambf_data.items[importer.ambf_data.bodies[k]]) = "")
    => \A k \in 1..Len(importer.ambf_data.bodies) :
          LET key == importer.ambf_data.bodies[k]
              body_data == importer.ambf_data.items[key]
          IN  load_mesh_creates(body_data) # "" =>
                 /\ key \in DOMAIN importer.blender_remapped_body_names
                 /\ IsObjectName(importer.blender_remapped_body_names[key])
                 /\ objects[ObjectNamed(importer.blender_remapped_body_names[key])].location
                       = body_data.location.position

\* the export has built its body records and the scene is as it was then
ExportHasBodies == op.name = "export" /\ op.pc = "header"

\* the object a body record of the running export was built from
BuiltFrom(o, key) ==
    /\ ~objects[o].hide
    /\ add_body_prefix_str(remove_namespace_prefix(objects[o].name)) = key

\* the record an earlier import stored for object o and that has the collision
\* shape the object has now
StoredShapeMatches(o) ==
    /\ o \in DOMAIN CommonConfig.loaded_body_map
    /\ objects[o].type = "MESH"
    /\ objects[o].rigid_body.present
    /\ objects[o].rigid_body.collision_shape \notin {"CONVEX_HULL", "MESH"}
    /\ CommonConfig.loaded_body_map[o].collision_shape
          = objects[o].rigid_body.collision_shape

\* C18 as stated: the body records of an export are those the scene and its
\* settings alone determine, whatever imports ran before in the process.
C18_NoSharedState ==
    ExportHasBodies =>
       \A k \in 1..Len(exporter.body_names_list) :
          LET key == exporter.body_names_list[k]
          IN  \E o \in ObjIds :
                 /\ BuiltFrom(o, key)
                 /\ exporter.ambf_yaml.items[key] = body_data_of(o, <<>>)

\* C18, amended: the body records of an export are those the scene and its
\* settings alone determine, except the collision geometry of a body that an
\* earlier import of the same process loaded with the collision shape it has
\* now: that geometry is the one of the loaded record.
C18_SharedThroughLoadedBodies ==
    ExportHasBodies =>
       \A k \in 1..Len(exporter.body_names_list) :
          LET key == exporter.body_names_list[k]
              rec == exporter.ambf_yaml.items[key]
          IN  \E o \in ObjIds :
                 /\ BuiltFrom(o, key)
                 /\ [rec EXCEPT !.collision_geometry = Zero3]
                       = [body_data_of(o, <<>>) EXCEPT !.collision_geometry = Zero3]
                 /\ rec.collision_geometry =
                       IF StoredShapeMatches(o)
                       THEN CommonConfig.loaded_body_map[o].collision_geometry
                       ELSE IF rec.collision_shape = "" THEN Zero3
                       ELSE RoundVec3(objects[o].dimensions)

\* an export after the import of a document whose body has a hand-tuned box:
\* the record carries the loaded geometry, not the one of the dimensions
C18_Witness ==
    /\ ExportHasBodies
    /\ \E o \in ObjIds :
          /\ StoredShapeMatches(o)
          /\ BuiltFrom(o, "BODY A")
          /\ "BODY A" \in DOMAIN exporter.ambf_yaml.items
          /\ exporter.ambf_yaml.items["BODY A"].collision_geometry
                = CommonConfig.loaded_body_map[o].collision_geometry
          /\ exporter.ambf_yaml.items["BODY A"].collision_geometry
                # RoundVec3(objects[o].dimensions)

\* an export has finished on a scene that a native-mode import built from
\* nothing; the document imported is the backup the export made
NativeRoundTripDone ==
    /\ op = Idle
    /\ ~scene.enable_legacy_loading
    /\ Len(hist) >= 3
    /\ SubSeq(hist, Len(hist) - 2, Len(hist)) = <<"clear", "import", "export">>
    /\ IsDocument(files[TargetPath \o ".old"])
    /\ IsDocument(files[TargetPath])

\* C23: the export of a scene produced by a native-mode import of a document
\* has one joint for every joint of the document, with the same parent and
\* child, and no body entry for the joint handles the import created.
C23_NativeRoundTripKeepsJoints ==
    NativeRoundTripDone =>
       LET doc1 == yaml_load(files[TargetPath \o ".old"])
           doc2 == yaml_load(files[TargetPath])
       IN  \A k \in 1..Len(doc1.joints) :
              LET joint_data == doc1.items[doc1.joints[k]]
              IN  /\ \E j \in 1..Len(doc2.joints) :
                        /\ doc2.items[doc2.joints[j]].parent = joint_data.parent
                        /\ doc2.items[doc2.joints[j]].child = joint_data.child
                  /\ add_body_prefix_str(joint_data.name) \notin Range(doc2.bodies)

\* the hierarchy parent relation of the scene has no cycle: climbing from any
\* object reaches an object without parent within as many steps as there are
\* objects
RECURSIVE ReachesRoot(_, _)
ReachesRoot(o, steps) ==
    \/ objects[o].parent = None
    \/ /\ steps > 0
       /\ ReachesRoot(objects[o].parent, steps - 1)

C25_JointsReferToBodies ==
    ExportHasBodies =>
       \A k \in 1..Len(exporter.joint_names_list) :
          LET joint_data == exporter.ambf_yaml.items[exporter.joint_names_list[k]]
          IN  /\ joint_data.parent \in Range(exporter.body_names_list)
              /\ joint_data.child \in Range(exporter.body_names_list)

NoDuplicates(seq) == \A i, j \in 1..Len(seq) : seq[i] = seq[j] => i = j

\* C26: the bodies list and the joints list of the document an export has
\* built hold no name twice.
C26_NamesDistinct ==
    ExportHasBodies =>
       /\ NoDuplicates(exporter.body_names_list)
       /\ NoDuplicates(exporter.joint_names_list)

----------------------------------------------------------------------------
(***************************************************************************)
(* Properties of names and mesh files (SpecBody).                          *)
(***************************************************************************)
\* C28: the namespace get_body_namespace splits off the name of an object,
\* followed by the name remove_namespace_prefix left in the object's body
\* record, is the name of the object.
C28_SplitsRejoin ==
    ExportHasBodies =>
       \A o \in ObjIds :
          LET key == add_body_prefix_str(remove_namespace_prefix(objects[o].name))
          IN  key \in DOMAIN exporter.ambf_yaml.items =>
                 get_body_namespace(objects[o].name) \o exporter.ambf_yaml.items[key].name
                    = objects[o].name

\* C29: every body of a document that an export of this session wrote names a
\* mesh file for whose extension load_mesh has a loading branch.
C29_ExportedMeshesLoad ==
    (op.name = "import" /\ op.pc = "calls" /\ hist = <<"export", "clear">>) =>
       \A k \in 1..Len(importer.ambf_data.bodies) :
          LET body_data == importer.ambf_data.items[importer.ambf_data.bodies[k]]
          IN  body_data.mesh # "" => load_mesh_creates(body_data) = "MESH"

\* C30: on every object, ambf_object_type is RIGID_BODY only if
\* ambf_rigid_body_enable is set, CONSTRAINT only if ambf_constraint_enable is
\* set, and NONE only if both flags are clear.
C30_TypeAgreesWithFlags ==
    op = Idle =>
       \A o \in ObjIds :
          /\ objects[o].ambf_object_type = "RIGID_BODY" => objects[o].ambf_rigid_body_enable
          /\ objects[o].ambf_object_type = "CONSTRAINT" => objects[o].ambf_constraint_enable
          /\ objects[o].ambf_object_type = "NONE" =>
                /\ ~objects[o].ambf_rigid_body_enable
                /\ ~objects[o].ambf_constraint_enable

\* C19: when an export that opened its destination file has been left, by its
\* return or by an exception, the file handle is closed.
C19_HandleClosed ==
    (op = Idle /\ exporter.output_file # "none") => exporter.output_file = "closed"

============================================================================
